---- MODULE Spec2Model ----
(***************************************************************************)
(* A model of lib/mesh-gradient.ts (src/unnamed/part_000): the Bowyer-     *)
(* Watson triangulator, the micro-triangle filter, the adaptive Poisson    *)
(* sampler, the shape classifier, Chaikin smoothing and the mood mapping.  *)
(*                                                                         *)
(* Numbers.  The code computes in IEEE doubles.  The model computes in     *)
(* exact rationals, each quantity carried as an integer over a stated      *)
(* denominator: plane coordinates of the triangulator are doubled (the     *)
(* centre of the bounding box is a half-integer), areas are doubled (the   *)
(* cross product is halved), Chaikin coordinates carry the denominator     *)
(* 4^it.  Rounding of the double arithmetic is not modelled.               *)
(*                                                                         *)
(* Each component has its own specification over the shared variables; the *)
(* variables of the other components stay at their idle values.            *)
(***************************************************************************)
EXTENDS Integers, Sequences, FiniteSets, TLC

VARIABLES
    pc,               \* position of the running function
    img,              \* the pixel source (ctx): which picture it holds
    w, h,             \* image width and height
    pts,              \* the point list: adaptivePoissonSampling's pts, and
                      \* the pts handed to triangulate and Delaunay
    \* ---- Delaunay / triangulate
    i,                \* Delaunay.run: loop index of the insertion loop
    tris,             \* Delaunay.run: the working triangle list
    triangleIndices,  \* Delaunay.triangleIndices
    unfiltered,       \* triangulate: `result` before filterSmallTriangles
    result,           \* triangulate: the returned list
    \* ---- adaptivePoissonSampling
    baseMinDist,      \* parameter baseMinDist
    settings,         \* parameter settings
    maxAttempts,      \* parameter maxAttempts
    grid,             \* grid[gx][gy]: index into pts, or null
    active,           \* the active list (indices into pts)
    ri,               \* index into active chosen by the running pass
    attempts,         \* `a`: attempts made by the running pass
    mark,             \* history: an earlier loop head, kept for comparison
    \* ---- classifyShapes
    ctris,            \* parameter tris
    threshold,        \* parameter threshold, times SettingsScale
    edgeMap,          \* edgeMap, in insertion order
    neighbors,        \* neighbors: one list of indices per triangle
    ti,               \* loop index `i` of the running loop
    primary, detail,  \* the two result lists, as indices into tris
    \* ---- chaikinSmooth
    cpts,             \* parameter pts
    iters,            \* parameter iters
    rlist,            \* `r`: the working list, coordinates times 4^it
    it,               \* rounds done
    \* ---- moodToSettings
    moodA, moodB,     \* two moods, moodA <= moodB
    setA, setB,       \* moodToSettings of each
    \* ---- analyzeBaseGradient and baseGradientDef
    samples,          \* samples: colour and position (times 2 * gridSize)
    gi,               \* loop index `i` of the pair search
    maxDist2,         \* maxDist, squared
    gfrom, gto,       \* `from` and `to`
    direction,        \* the returned direction, times 2 * gridSize
    stops,            \* baseGradientDef: the stops
    denoms,           \* history: the divisors of the divisions made so far
    \* ---- the sampling functions called on their own
    pixelReads,       \* the (x, y) handed to getImageData by the last call
    \* ---- generateDesignerSVG
    svgDefs,          \* the gradients inside <defs>, in document order
    svgLayers,        \* the <g> elements, in document order
    \* ---- computeGlobalDir
    gDir,             \* the returned direction: (dx, dy) / sqrt(len2)
    \* ---- MeshVectorizer (components/mesh-vectorizer.tsx)
    originalImage,    \* state originalImage: a data URL, or null
    imageSize,        \* state imageSize: the picture it was measured on
    triangles,        \* state triangles: what they were computed from
    uiMood,           \* state mood
    isProcessing,     \* state isProcessing
    svgOutput,        \* state svgOutput: what it was computed from, or null
    readers,          \* the FileReaders that have not fired yet
    runs              \* the processImage calls waiting for their picture

triVars == <<i, tris, triangleIndices, unfiltered, result>>
poiVars == <<baseMinDist, settings, maxAttempts, grid, active, ri, attempts, mark>>
clsVars == <<ctris, threshold, edgeMap, neighbors, ti, primary, detail>>
chkVars == <<cpts, iters, rlist, it>>
moodVars == <<moodA, moodB, setA, setB>>
grdVars == <<samples, gi, maxDist2, gfrom, gto, direction, stops, denoms>>
rdVars == <<pixelReads>>
svgVars == <<svgDefs, svgLayers>>
dirVars == <<gDir>>
uiVars == <<originalImage, imageSize, triangles, uiMood, isProcessing, svgOutput, readers, runs>>
restVars == <<rdVars, svgVars, dirVars, uiVars>>
vars == <<pc, img, w, h, pts, triVars, poiVars, clsVars, chkVars, moodVars, grdVars, restVars>>
\* the variables outside each component
notRd == <<img, w, h, triVars, poiVars, clsVars, chkVars, moodVars, grdVars, svgVars, dirVars, uiVars>>
notSvg == <<img, w, h, pts, triVars, poiVars, clsVars, chkVars, moodVars, grdVars, rdVars, dirVars, uiVars>>
notDir == <<img, w, h, pts, triVars, poiVars, clsVars, chkVars, moodVars, grdVars, rdVars, svgVars, uiVars>>
notUi == <<pc, img, w, h, pts, triVars, poiVars, clsVars, chkVars, moodVars, grdVars, rdVars, svgVars, dirVars>>
notTri == <<poiVars, clsVars, chkVars, moodVars, grdVars, restVars>>
notPoi == <<triVars, clsVars, chkVars, moodVars, grdVars, restVars>>
notCls == <<img, w, h, pts, triVars, poiVars, chkVars, moodVars, grdVars, restVars>>
notChk == <<img, w, h, pts, triVars, poiVars, clsVars, moodVars, grdVars, restVars>>
notMood == <<img, w, h, pts, triVars, poiVars, clsVars, chkVars, grdVars, restVars>>
notGrd == <<pts, triVars, poiVars, clsVars, chkVars, moodVars, restVars>>

----------------------------------------------------------------------------
(* Bounds of the model *)

\* points of the triangulator lie on the grid 0..MaxCoord x 0..MaxCoord
MaxCoord == 3
\* at most MaxN input points
MaxN == 4
\* the sampler runs on images of even sides 2, 4, .., 2 * MaxHalfSide
MaxHalfSide == 2
\* baseMinDist ranges over 2..MaxBaseDist
MaxBaseDist == 3
\* maxAttempts ranges over 1..MaxAttemptsBound
MaxAttemptsBound == 2
\* the sampler is followed until it has accepted MaxPts points
MaxPts == 4

----------------------------------------------------------------------------
(* Generic helpers *)

Abs(x) == IF x < 0 THEN -x ELSE x
Max2(a, b) == IF a > b THEN a ELSE b
Min2(a, b) == IF a < b THEN a ELSE b

RECURSIVE SqrtBetween(_, _, _)
SqrtBetween(n, lo, hi) ==
    IF lo = hi THEN lo
    ELSE LET mid == (lo + hi + 1) \div 2
         IN  IF mid * mid <= n THEN SqrtBetween(n, mid, hi) ELSE SqrtBetween(n, lo, mid - 1)

\* Math.floor(Math.sqrt(n))
ISqrt(n) == SqrtBetween(n, 0, Min2(n, 46340))

RECURSIVE GCD(_, _)
GCD(m, n) == IF n = 0 THEN m ELSE GCD(n, m % n)

\* the non-negative rational n / d in lowest terms
Frac(n, d) == LET g == GCD(n, d) IN [n |-> n \div g, d |-> d \div g]
FracMul(f, g) == Frac(f.n * g.n, f.d * g.d)
FracLess(f, g) == f.n * g.d < g.n * f.d
FracMax(f, g) == IF FracLess(f, g) THEN g ELSE f

RECURSIVE Flat(_)
\* Array.prototype.flat on a list of lists
Flat(ss) == IF ss = <<>> THEN <<>> ELSE Head(ss) \o Flat(Tail(ss))

RECURSIVE SumSeq(_)
SumSeq(s) == IF s = <<>> THEN 0 ELSE Head(s) + SumSeq(Tail(s))

----------------------------------------------------------------------------
(* Pixel source and colour utilities *)

Black == [r |-> 0, g |-> 0, b |-> 0]
Red == [r |-> 255, g |-> 0, b |-> 0]

White == [r |-> 255, g |-> 255, b |-> 255]
Green == [r |-> 0, g |-> 255, b |-> 0]

\* the pictures the model puts behind ctx, each of two flat halves: the
\* colour of the left (or top) half, the colour of the other half, and
\* whether the halves are rows
Picture(im) ==
    CASE im = "uniform" -> [a |-> Black, b |-> Black, rows |-> FALSE]
      [] im = "split"   -> [a |-> Black, b |-> Red,   rows |-> FALSE]
      [] im = "white"   -> [a |-> White, b |-> White, rows |-> FALSE]
      [] im = "bw"      -> [a |-> Black, b |-> White, rows |-> FALSE]
      [] im = "wb"      -> [a |-> White, b |-> Black, rows |-> FALSE]
      [] im = "bwRows"  -> [a |-> Black, b |-> White, rows |-> TRUE]
      [] im = "wbRows"  -> [a |-> White, b |-> Black, rows |-> TRUE]
      [] im = "rg"      -> [a |-> Red,   b |-> Green, rows |-> FALSE]
      [] im = "grRows"  -> [a |-> Green, b |-> Red,   rows |-> TRUE]
      [] im = "rw"      -> [a |-> Red,   b |-> White, rows |-> FALSE]

\* the pictures of the sampler and the triangulator
Images == {"uniform", "split"}

\* ctx.getImageData(px, py, 1, 1).data: the pixel, and transparent black
\* outside the canvas
Pixel(im, ww, hh, px, py) ==
    IF px \in 0..(ww - 1) /\ py \in 0..(hh - 1)
    THEN IF (IF Picture(im).rows THEN 2 * py >= hh ELSE 2 * px >= ww)
         THEN Picture(im).b ELSE Picture(im).a
    ELSE Black

\* mutant: the upper limit is not applied
clampLowOnly(v, lo, hi) == Max2(lo, v)

clamp(v, lo, hi) == Max2(lo, Min2(hi, v))

\* `rgb(${p[0]}, ${p[1]}, ${p[2]})`: the colour string, as its format tag
\* and the three numbers printed in it
rgbToString(c) == [fmt |-> "rgb", r |-> c.r, g |-> c.g, b |-> c.b]

\* sampleColor at integer pixel coordinates
sampleColor(im, ww, hh, x, y) == rgbToString(Pixel(im, ww, hh, x, y))

\* sampleRGB at integer pixel coordinates
sampleRGB(im, ww, hh, x, y) == Pixel(im, ww, hh, x, y)

\* colorDistance; the colours of the model differ in one channel, so the
\* root is exact
colorDistance(c1, c2) ==
    ISqrt((c1.r - c2.r) * (c1.r - c2.r) + (c1.g - c2.g) * (c1.g - c2.g)
          + (c1.b - c2.b) * (c1.b - c2.b))

\* parseRGB: a string the pattern does not match reads as black
parseRGB(s) == IF s.fmt = "rgb" THEN [r |-> s.r, g |-> s.g, b |-> s.b] ELSE Black

\* Math.round of the non-negative rational n/d
RoundDiv(n, d) == (2 * n + d) \div (2 * d)

\* blendColors: component-wise mean, rounded; black for the empty list
blendColors(colors) ==
    IF Len(colors) = 0 THEN Black
    ELSE LET n == Len(colors)
         IN  [r |-> RoundDiv(SumSeq([k \in 1..n |-> colors[k].r]), n),
              g |-> RoundDiv(SumSeq([k \in 1..n |-> colors[k].g]), n),
              b |-> RoundDiv(SumSeq([k \in 1..n |-> colors[k].b]), n)]

----------------------------------------------------------------------------
(* moodToSettings: every field but pathSmoothing is carried times SettingsScale *)

SettingsScale == 10000

\* mutant: pathSmoothing without Math.max(1, ..)
moodToSettingsUnfloored(mood) ==
    [pathSmoothing       |-> (mood * 4) \div 100,
     overlapAmount       |-> 10600 + 12 * mood,
     shapeOpacity        |-> 9700 - 30 * mood,
     adaptiveSensitivity |-> 2500 + 45 * mood,
     minShapeScale       |-> 8000 + 40 * mood,
     mergeThreshold      |-> 1500 + 35 * mood,
     gradientConsistency |-> 3500 + 55 * mood,
     baseGradientOpacity |-> 2500 + 55 * mood]

moodToSettings(mood) ==
    [pathSmoothing       |-> Max2(1, (mood * 4) \div 100),
     overlapAmount       |-> 10600 + 12 * mood,
     shapeOpacity        |-> 9700 - 30 * mood,
     adaptiveSensitivity |-> 2500 + 45 * mood,
     minShapeScale       |-> 8000 + 40 * mood,
     mergeThreshold      |-> 1500 + 35 * mood,
     gradientConsistency |-> 3500 + 55 * mood,
     baseGradientOpacity |-> 2500 + 55 * mood]

----------------------------------------------------------------------------
(* adaptivePoissonSampling: the closures localDist, tooClose and addPoint.    *)
(* Points have integer coordinates; cell = baseMinDist / sqrt(2) is         *)
(* irrational, so every floor and ceil below is decided by an integer root. *)

\* the 8 probe directions of regionVariance, (cos, sin) of i / 8 turns, each
\* component one of 1, 1/sqrt(2), 0, -1/sqrt(2), -1.  (IEEE cos and sin of
\* the quarter turns are within 2e-16 of 0 and not 0.)
ProbeDirs ==
    << <<"one", "zero">>, <<"half", "half">>, <<"zero", "one">>, <<"mhalf", "half">>,
       <<"mone", "zero">>, <<"mhalf", "mhalf">>, <<"zero", "mone">>, <<"half", "mhalf">> >>

\* Math.floor(clamp(x + c * radius, 0, dim - 1)) for an integer x
ProbeCoord(x, c, radius, dim) ==
    LET f == ISqrt((radius * radius) \div 2)
    IN  CASE c = "one"   -> clamp(x + radius, 0, dim - 1)
          [] c = "half"  -> clamp(x + f, 0, dim - 1)
          [] c = "zero"  -> clamp(x, 0, dim - 1)
          [] c = "mhalf" -> clamp(x - f - 1, 0, dim - 1)
          [] c = "mone"  -> clamp(x - radius, 0, dim - 1)

\* `total` of regionVariance: the summed colour distance of the 8 probes
\* from the centre sample
VarianceTotal(im, ww, hh, x, y, radius) ==
    LET center == sampleRGB(im, ww, hh, clamp(x, 0, ww - 1), clamp(y, 0, hh - 1))
    IN  SumSeq([k \in 1..8 |->
            colorDistance(sampleRGB(im, ww, hh,
                                    ProbeCoord(x, ProbeDirs[k][1], radius, ww),
                                    ProbeCoord(y, ProbeDirs[k][2], radius, hh)),
                          center)])

\* localDist(x, y) = baseMinDist * max(0.35, 1 - (v / 255) * sensitivity)
\* * minShapeScale with v = total / 8, as a fraction in lowest terms
localDist(im, ww, hh, bmd, st, x, y) ==
    LET total  == VarianceTotal(im, ww, hh, x, y, bmd)
        factor == FracMax(Frac(35, 100),
                          Frac(Max2(0, 2040 * SettingsScale - total * st.adaptiveSensitivity),
                               2040 * SettingsScale))
    IN  FracMul(FracMul(Frac(bmd, 1), factor), Frac(st.minShapeScale, SettingsScale))

\* Math.floor(x / cell) for an integer x >= 0
CellOf(x, bmd) == ISqrt(2 * x * x) \div bmd

\* Math.ceil(v / cell) for an integer v: gw and gh
CellCount(v, bmd) ==
    IF v > 0 THEN (ISqrt(2 * v * v) \div bmd) + 1
    ELSE IF v = 0 THEN 0
    ELSE 0 - (ISqrt(2 * v * v) \div bmd)

\* Math.ceil(md / cell) + 1 for the fraction md > 0
Reach(md, bmd) == (ISqrt(2 * md.n * md.n) \div (md.d * bmd)) + 2

\* the entry of an empty grid cell
NullIdx == -1

SqDist(p, q) == (p.x - q.x) * (p.x - q.x) + (p.y - q.y) * (p.y - q.y)

\* dx * dx + dy * dy < md * md
Closer(p, q, md) == SqDist(p, q) * md.d * md.d < md.n * md.n

\* tooClose(x, y, md): some point recorded in a cell within r cells of the
\* cell of (x, y) is nearer than md
tooClose(ps, gr, bmd, gw, gh, c, md) ==
    LET gx == CellOf(c.x, bmd)
        gy == CellOf(c.y, bmd)
        r  == Reach(md, bmd)
    IN  \E ci \in Max2(0, gx - r)..Min2(gw - 1, gx + r) :
        \E cj \in Max2(0, gy - r)..Min2(gh - 1, gy + r) :
            /\ gr[ci][cj] # NullIdx
            /\ Closer(ps[gr[ci][cj] + 1], c, md)

\* addPoint, the grid: the cell of the new point now names it
GridAfterAdd(ps, gr, bmd, gw, gh, c) ==
    LET gx == CellOf(c.x, bmd)
        gy == CellOf(c.y, bmd)
    IN  IF gx >= 0 /\ gx < gw /\ gy >= 0 /\ gy < gh
        THEN [gr EXCEPT ![gx][gy] = Len(ps)]
        ELSE gr

\* mutant: the far borders are let through
InBoundsInclusive(c, ww, hh) == c.x >= 0 /\ c.x <= ww /\ c.y >= 0 /\ c.y <= hh

\* nx >= 0 && nx < w && ny >= 0 && ny < h
InBounds(c, ww, hh) == c.x >= 0 /\ c.x < ww /\ c.y >= 0 /\ c.y < hh

\* the candidates of one attempt around p: p + dist * (cos, sin) with
\* ld <= dist < 2 ld, restricted to integer coordinates
Candidates(p, ld) ==
    LET reach == ((2 * ld.n) \div ld.d) + 1
    IN  {c \in {[x |-> p.x + ex, y |-> p.y + ey] : ex \in (0 - reach)..reach,
                                                  ey \in (0 - reach)..reach} :
            /\ SqDist(p, c) * ld.d * ld.d >= ld.n * ld.n
            /\ SqDist(p, c) * ld.d * ld.d < 4 * ld.n * ld.n}

\* active.splice(k, 1) for the 0-based k
Splice(s, k) == SubSeq(s, 1, k) \o SubSeq(s, k + 2, Len(s))

\* the moods the sampler is run at
Moods == {0, 50, 100}

\* the state of the sampler before it runs
IdlePoi ==
    /\ baseMinDist = 0
    /\ settings = moodToSettings(0)
    /\ maxAttempts = 0
    /\ grid = <<>>
    /\ active = <<>>
    /\ ri = 0
    /\ attempts = 0
    /\ mark = [set |-> FALSE, n |-> 0, cfg |-> <<>>]

\* the state of classifyShapes before it runs
IdleCls ==
    /\ ctris = <<>>
    /\ threshold = 0
    /\ edgeMap = <<>>
    /\ neighbors = <<>>
    /\ ti = 0
    /\ primary = <<>>
    /\ detail = <<>>

\* the state of chaikinSmooth before it runs
IdleChk ==
    /\ cpts = <<>>
    /\ iters = 0
    /\ rlist = <<>>
    /\ it = 0

\* the state before moodToSettings is called
IdleMood ==
    /\ moodA = 0
    /\ moodB = 0
    /\ setA = moodToSettings(0)
    /\ setB = moodToSettings(0)

\* the state before analyzeBaseGradient is called
NoSample == [color |-> Black, position |-> [x |-> 0, y |-> 0]]
IdleGrd ==
    /\ samples = <<>>
    /\ gi = 0
    /\ maxDist2 = 0
    /\ gfrom = NoSample
    /\ gto = NoSample
    /\ direction = [x1 |-> 0, y1 |-> 0, x2 |-> 0, y2 |-> 0]
    /\ stops = <<>>
    /\ denoms = {}

\* no sampling function has been called on its own
IdleRd == pixelReads = {}

\* the state before generateDesignerSVG returns
IdleSvg ==
    /\ svgDefs = <<>>
    /\ svgLayers = <<>>

\* the state before computeGlobalDir returns
NoDir == [dx |-> 0, dy |-> 0, len2 |-> 0]
IdleDir == gDir = NoDir

\* MeshVectorizer as mounted: the initial values of its useState calls
NoImage == "null"
NoResult == [src |-> NoImage, mood |-> 0]
InitialMood == 50
Mounted ==
    /\ originalImage = NoImage
    /\ imageSize = NoImage
    /\ triangles = NoResult
    /\ uiMood = InitialMood
    /\ isProcessing = FALSE
    /\ svgOutput = NoResult
IdleUi ==
    /\ Mounted
    /\ readers = <<>>
    /\ runs = <<>>

IdleRest == IdleRd /\ IdleSvg /\ IdleDir /\ IdleUi

\* the other components idle
IdleButTri == IdlePoi /\ IdleCls /\ IdleChk /\ IdleMood /\ IdleGrd /\ IdleRest

----------------------------------------------------------------------------
(* Delaunay (Bowyer-Watson), in doubled coordinates *)

Grid == {[x |-> x, y |-> y] : x \in 0..MaxCoord, y \in 0..MaxCoord}

SetMin(S) == CHOOSE m \in S : \A e \in S : m <= e
SetMax(S) == CHOOSE m \in S : \A e \in S : m >= e

\* the three super-triangle vertices for the point list ps, times two:
\* (mx - 20d, my - d), (mx, my + 20d), (mx + 20d, my - d)
superTri(ps) ==
    LET xs == {ps[k].x : k \in 1..Len(ps)}
        ys == {ps[k].y : k \in 1..Len(ps)}
        dx == SetMax(xs) - SetMin(xs)
        dy == SetMax(ys) - SetMin(ys)
        d  == Max2(dx, dy)
        mx2 == SetMin(xs) + SetMax(xs)
        my2 == SetMin(ys) + SetMax(ys)
    IN  << [x |-> mx2 - 40 * d, y |-> my2 - 2 * d],
           [x |-> mx2,          y |-> my2 + 40 * d],
           [x |-> mx2 + 40 * d, y |-> my2 - 2 * d] >>

\* `all`, times two: the inputs, then the super-triangle (position k + 1
\* holds the point of the 0-based index k)
AllPts(ps) ==
    [k \in 1..Len(ps) |-> [x |-> 2 * ps[k].x, y |-> 2 * ps[k].y]] \o superTri(ps)

\* the in-circle determinant of inCircumcircle
InCircleDet(p, a, b, c) ==
    LET ax == a.x - p.x  ay == a.y - p.y
        bx == b.x - p.x  by == b.y - p.y
        cx == c.x - p.x  cy == c.y - p.y
    IN  (ax * ax + ay * ay) * (bx * cy - cx * by)
        - (bx * bx + by * by) * (ax * cy - cx * ay)
        + (cx * cx + cy * cy) * (ax * by - bx * ay)

\* the orientation term `ori` of inCircumcircle
Orientation(a, b, c) == (a.x - c.x) * (b.y - c.y) - (a.y - c.y) * (b.x - c.x)

inCircumcircle(p, a, b, c) ==
    IF Orientation(a, b, c) > 0 THEN InCircleDet(p, a, b, c) > 0
    ELSE InCircleDet(p, a, b, c) < 0

\* the three edges of the triangle t, in the order of the code
EdgesOf(t) == << <<t[1], t[2]>>, <<t[2], t[3]>>, <<t[3], t[1]>> >>

\* mutant: the edges are compared in one direction only
SameEdgeDirected(e, oe2) == e[1] = oe2[1] /\ e[2] = oe2[2]

\* the comparison of the edge e with the edge oe2, in either direction
SameEdge(e, oe2) ==
    \/ e[1] = oe2[1] /\ e[2] = oe2[2]
    \/ e[1] = oe2[2] /\ e[2] = oe2[1]

\* positions in ts of the triangles whose circumcircle holds point number k
BadOf(all, ts, k) ==
    {j \in 1..Len(ts) :
        inCircumcircle(all[k + 1], all[ts[j][1] + 1], all[ts[j][2] + 1], all[ts[j][3] + 1])}

\* `shared`: the edge e of the bad triangle at position j is an edge of
\* another bad triangle (t === o compares the list entries, not their values)
Shared(ts, bad, j, e) ==
    \E o \in bad : o # j /\ \E m \in 1..3 : SameEdge(e, EdgesOf(ts[o])[m])

RECURSIVE PolyOf(_, _, _)
\* `poly`: the unshared edges of the bad triangles, scanning the positions
\* `todo` (ascending) and the three edges of each in order
PolyOf(ts, bad, todo) ==
    IF todo = <<>> THEN <<>>
    ELSE LET j == Head(todo)
             own == SelectSeq(EdgesOf(ts[j]), LAMBDA e : ~Shared(ts, bad, j, e))
         IN  own \o PolyOf(ts, bad, Tail(todo))

RECURSIVE Ascending(_)
\* the elements of a finite set of integers, ascending
Ascending(S) ==
    IF S = {} THEN <<>> ELSE <<SetMin(S)>> \o Ascending(S \ {SetMin(S)})

RECURSIVE Keep(_, _, _)
\* ts without the entries at the positions in drop (positions counted from j)
Keep(ts, drop, j) ==
    IF ts = <<>> THEN <<>>
    ELSE (IF j \in drop THEN <<>> ELSE <<Head(ts)>>) \o Keep(Tail(ts), drop, j + 1)

\* one pass of the insertion loop: point number k into the list ts
InsertPoint(ps, ts, k) ==
    LET bad  == BadOf(AllPts(ps), ts, k)
        poly == PolyOf(ts, bad, Ascending(bad))
    IN  Keep(ts, bad, 1) \o [m \in 1..Len(poly) |-> <<poly[m][1], poly[m][2], k>>]

\* mutant: only the first vertex of each triangle is tested
DropSuperFirstOnly(ts, n) == SelectSeq(ts, LAMBDA t : t[1] < n)

\* tris.filter(t => t[0] < n && t[1] < n && t[2] < n)
DropSuper(ts, n) == SelectSeq(ts, LAMBDA t : t[1] < n /\ t[2] < n /\ t[3] < n)

----------------------------------------------------------------------------
(* triangulate and filterSmallTriangles; `area2` is twice the area *)

\* twice Math.abs(cross) / 2
Area2(p0, p1, p2) ==
    Abs((p1.x - p0.x) * (p2.y - p0.y) - (p2.x - p0.x) * (p1.y - p0.y))

\* the vertex p with the colour sampled at its clamped position
Vertex(im, ww, hh, p) ==
    [x |-> p.x, y |-> p.y,
     color |-> sampleColor(im, ww, hh, clamp(p.x, 0, ww - 1), clamp(p.y, 0, hh - 1))]

\* the Triangle pushed for the index triple starting at position k of idx
MakeTriangle(im, ww, hh, ps, idx, k) ==
    LET p0 == ps[idx[k] + 1]
        p1 == ps[idx[k + 1] + 1]
        p2 == ps[idx[k + 2] + 1]
    IN  [points |-> <<Vertex(im, ww, hh, p0), Vertex(im, ww, hh, p1), Vertex(im, ww, hh, p2)>>,
         centroid3 |-> [x |-> p0.x + p1.x + p2.x, y |-> p0.y + p1.y + p2.y],
         area2 |-> Area2(p0, p1, p2)]

\* mutant: the loop test written i <= idx.length
TrianglePassesInclusive(idx) == (Len(idx) \div 3) + 1

\* passes of `for (let i = 0; i < idx.length; i += 3)`
TrianglePasses(idx) == (Len(idx) + 2) \div 3

\* a pass reads .x of undefined (a TypeError) when one of its three indices
\* is missing from idx or names no point of pts
TriangulateThrows(ps, idx) ==
    \E k \in 1..TrianglePasses(idx) : \E j \in (3 * k - 2)..(3 * k) :
        \/ j > Len(idx)
        \/ idx[j] \notin 0..(Len(ps) - 1)

\* the loop of triangulate over idx, three indices at a time
BuildTriangles(im, ww, hh, ps, idx) ==
    [k \in 1..TrianglePasses(idx) |-> MakeTriangle(im, ww, hh, ps, idx, 3 * k - 2)]

RECURSIVE InsertSorted(_, _)
InsertSorted(s, x) ==
    IF s = <<>> THEN <<x>>
    ELSE IF x <= Head(s) THEN <<x>> \o s
    ELSE <<Head(s)>> \o InsertSorted(Tail(s), x)

RECURSIVE SortAsc(_)
\* areas.sort((a, b) => a - b)
SortAsc(s) == IF s = <<>> THEN <<>> ELSE InsertSorted(SortAsc(Tail(s)), Head(s))

\* mutant: the lower of the two middle areas of an even-length list
MedianArea2Lower(ts) ==
    LET areas == SortAsc([k \in 1..Len(ts) |-> ts[k].area2])
        m == areas[((Len(ts) - 1) \div 2) + 1]
    IN  IF m = 0 THEN 2 ELSE m

\* mutant: the median without `|| 1`
MedianArea2NoFallback(ts) ==
    SortAsc([k \in 1..Len(ts) |-> ts[k].area2])[(Len(ts) \div 2) + 1]

\* twice `median`: areas[Math.floor(areas.length / 2)] || 1
MedianArea2(ts) ==
    LET areas == SortAsc([k \in 1..Len(ts) |-> ts[k].area2])
        m == areas[(Len(ts) \div 2) + 1]
    IN  IF m = 0 THEN 2 ELSE m

\* t.area >= cut with cut = median * 0.28
AboveCut(area2, median2) == 100 * area2 >= 28 * median2

filterSmallTriangles(ts) ==
    IF Len(ts) = 0 THEN ts
    ELSE SelectSeq(ts, LAMBDA t : AboveCut(t.area2, MedianArea2(ts)))

----------------------------------------------------------------------------
(* triangulate(ctx, pts, w, h): new Delaunay(pts), the triangle loop, the filter *)

\* the state of triangulate before it runs
IdleTri ==
    /\ i = 0
    /\ tris = <<>>
    /\ triangleIndices = <<>>
    /\ unfiltered = <<>>
    /\ result = <<>>

InitTri ==
    /\ pc = "run"
    /\ img \in Images
    /\ w = MaxCoord /\ h = MaxCoord
    /\ \E n \in 0..MaxN : pts \in [1..n -> Grid]
    /\ IdleTri
    /\ IdleButTri

\* Delaunay.run up to the insertion loop: with fewer than 3 points it returns
\* at once and leaves triangleIndices empty
RunStart ==
    /\ pc = "run"
    /\ IF Len(pts) < 3
       THEN pc' = "triangulate" /\ tris' = tris
       ELSE pc' = "insert" /\ tris' = << <<Len(pts), Len(pts) + 1, Len(pts) + 2>> >>
    /\ UNCHANGED <<img, w, h, pts, i, triangleIndices, unfiltered, result, notTri>>

\* one pass of `for (let i = 0; i < n; i++)`
Insert ==
    /\ pc = "insert"
    /\ i < Len(pts)
    /\ tris' = InsertPoint(pts, tris, i)
    /\ i' = i + 1
    /\ UNCHANGED <<pc, img, w, h, pts, triangleIndices, unfiltered, result, notTri>>

\* after the loop: drop the triangles of the super-triangle and flatten
RunFinish ==
    /\ pc = "insert"
    /\ i = Len(pts)
    /\ triangleIndices' = Flat(DropSuper(tris, Len(pts)))
    /\ pc' = "triangulate"
    /\ UNCHANGED <<img, w, h, pts, i, tris, unfiltered, result, notTri>>

\* the rest of triangulate: build the triangles and filter them
Triangulate ==
    /\ pc = "triangulate"
    /\ IF TriangulateThrows(pts, triangleIndices)
       THEN pc' = "threw" /\ UNCHANGED <<unfiltered, result>>
       ELSE /\ unfiltered' = BuildTriangles(img, w, h, pts, triangleIndices)
            /\ result' = filterSmallTriangles(unfiltered')
            /\ pc' = "done"
    /\ UNCHANGED <<img, w, h, pts, i, tris, triangleIndices, notTri>>

NextTri == RunStart \/ Insert \/ RunFinish \/ Triangulate

SpecTri == InitTri /\ [][NextTri]_vars

----------------------------------------------------------------------------
(* adaptivePoissonSampling(ctx, w, h, baseMinDist, settings, maxAttempts) *)

\* gw and gh of the running call
GridW == CellCount(w, baseMinDist)
GridH == CellCount(h, baseMinDist)

\* the grid as the points it names, and the active list as points: all the
\* loop reads of pts
NoPoint == [x |-> -1, y |-> -1]
Config ==
    << [ci \in DOMAIN grid |-> [cj \in DOMAIN grid[ci] |->
            IF grid[ci][cj] = NullIdx THEN NoPoint ELSE pts[grid[ci][cj] + 1]]],
       [k \in 1..Len(active) |-> pts[active[k] + 1]] >>

\* the state after the grid is built and addPoint(w / 2, h / 2) has run
InitPoisson ==
    /\ pc = "while"
    /\ img \in Images
    /\ \E hw \in 1..MaxHalfSide, hh \in 1..MaxHalfSide : w = 2 * hw /\ h = 2 * hh
    /\ baseMinDist \in 2..MaxBaseDist
    /\ \E mood \in Moods : settings = moodToSettings(mood)
    /\ maxAttempts \in 1..MaxAttemptsBound
    /\ pts = << [x |-> w \div 2, y |-> h \div 2] >>
    /\ active = <<0>>
    /\ grid = GridAfterAdd(<<>>,
                           [ci \in 0..(CellCount(w, baseMinDist) - 1) |->
                               [cj \in 0..(CellCount(h, baseMinDist) - 1) |-> NullIdx]],
                           baseMinDist, CellCount(w, baseMinDist), CellCount(h, baseMinDist),
                           [x |-> w \div 2, y |-> h \div 2])
    /\ ri = 0
    /\ attempts = 0
    /\ mark = [set |-> FALSE, n |-> 0, cfg |-> <<>>]
    /\ IdleTri /\ IdleCls /\ IdleChk /\ IdleMood /\ IdleGrd /\ IdleRest

\* the head of a pass of `while (active.length)`: ri is drawn.  (History: the
\* loop head may be remembered in mark, once.)
Pick ==
    /\ pc = "while"
    /\ active # <<>>
    /\ Len(pts) < MaxPts
    /\ ri' \in 0..(Len(active) - 1)
    /\ attempts' = 0
    /\ pc' = "attempt"
    /\ \/ mark' = mark
       \/ ~mark.set /\ mark' = [set |-> TRUE, n |-> Len(pts), cfg |-> Config]
    /\ UNCHANGED <<img, w, h, pts, baseMinDist, settings, maxAttempts, grid, active, notPoi>>

\* one pass of `for (let a = 0; a < maxAttempts; a++)`: a candidate inside
\* the image that is not too close is added and ends the loop
Attempt ==
    /\ pc = "attempt"
    /\ attempts < maxAttempts
    /\ LET p  == pts[active[ri + 1] + 1]
           ld == localDist(img, w, h, baseMinDist, settings, p.x, p.y)
       IN  \E c \in Candidates(p, ld) :
             IF /\ InBounds(c, w, h)
                /\ ~tooClose(pts, grid, baseMinDist, GridW, GridH, c,
                             localDist(img, w, h, baseMinDist, settings, c.x, c.y))
             THEN /\ pts' = Append(pts, c)
                  /\ active' = Append(active, Len(pts))
                  /\ grid' = GridAfterAdd(pts, grid, baseMinDist, GridW, GridH, c)
                  /\ pc' = "while"
                  /\ UNCHANGED attempts
             ELSE /\ attempts' = attempts + 1
                  /\ UNCHANGED <<pc, pts, active, grid>>
    /\ UNCHANGED <<img, w, h, baseMinDist, settings, maxAttempts, ri, mark, notPoi>>

\* `if (!found) active.splice(ri, 1)` after maxAttempts failed attempts
Drop ==
    /\ pc = "attempt"
    /\ attempts = maxAttempts
    /\ active' = Splice(active, ri)
    /\ pc' = "while"
    /\ UNCHANGED <<img, w, h, pts, baseMinDist, settings, maxAttempts, grid, ri, attempts,
                   mark, notPoi>>

\* the loop ends on the empty active list: return pts
Return ==
    /\ pc = "while"
    /\ active = <<>>
    /\ pc' = "returned"
    /\ UNCHANGED <<img, w, h, pts, poiVars, notPoi>>

NextPoisson == Pick \/ Attempt \/ Drop \/ Return

SpecPoisson == InitPoisson /\ [][NextPoisson]_vars

----------------------------------------------------------------------------
(* Claims on the sampler *)

\* localSpacing of an accepted point
LocalSpacing(p) == localDist(img, w, h, baseMinDist, settings, p.x, p.y)

\* C3: any two accepted points a and b are at distance at least
\* min(localSpacing(a), localSpacing(b)).
C3_SpacingInvariant ==
    \A j \in 1..Len(pts) : \A k \in 1..(j - 1) :
        \/ ~Closer(pts[k], pts[j], LocalSpacing(pts[j]))
        \/ ~Closer(pts[k], pts[j], LocalSpacing(pts[k]))

\* C4: the sampler terminates on every sequence of random choices, and
\* accepts finitely many points.  The loop reads pts only through the grid
\* and the active list, so a run that comes back, with more points accepted,
\* to the grid and active list (as points) of an earlier loop head can repeat
\* the choices made since then for ever: in a sampler that always terminates
\* no loop head recurs.
C4_NoLoopHeadRecurs ==
    ~(pc = "while" /\ mark.set /\ Len(pts) > mark.n /\ Config = mark.cfg)

----------------------------------------------------------------------------
(* Geometry used to state the claims, independent of inCircumcircle *)

\* twice the signed area of (a, b, c)
Cross(a, b, c) == (b.x - a.x) * (c.y - a.y) - (c.x - a.x) * (b.y - a.y)

\* the circumcentre of (a, b, c) is (CircumX / CircumD, CircumY / CircumD)
CircumD(a, b, c) == 2 * (a.x * (b.y - c.y) + b.x * (c.y - a.y) + c.x * (a.y - b.y))
CircumX(a, b, c) ==
    (a.x * a.x + a.y * a.y) * (b.y - c.y) + (b.x * b.x + b.y * b.y) * (c.y - a.y)
    + (c.x * c.x + c.y * c.y) * (a.y - b.y)
CircumY(a, b, c) ==
    (a.x * a.x + a.y * a.y) * (c.x - b.x) + (b.x * b.x + b.y * b.y) * (a.x - c.x)
    + (c.x * c.x + c.y * c.y) * (b.x - a.x)

\* squared distance of q from the circumcentre, times CircumD squared
DistToCentre(q, a, b, c) ==
    LET ex == q.x * CircumD(a, b, c) - CircumX(a, b, c)
        ey == q.y * CircumD(a, b, c) - CircumY(a, b, c)
    IN  ex * ex + ey * ey

\* q lies strictly inside the circumcircle of the proper triangle (a, b, c)
StrictlyInside(q, a, b, c) == DistToCentre(q, a, b, c) < DistToCentre(a, a, b, c)

\* the output triangles of Delaunay, as triples of input points
OutputTriangles ==
    {<<pts[triangleIndices[3 * k - 2] + 1], pts[triangleIndices[3 * k - 1] + 1],
       pts[triangleIndices[3 * k] + 1]>> : k \in 1..(Len(triangleIndices) \div 3)}

\* Delaunay.run has returned
RunReturned == pc \in {"triangulate", "done", "threw"}

Range(s) == {s[k] : k \in 1..Len(s)}

----------------------------------------------------------------------------
(* Claims on the triangulator *)

\* C2: after all insertions every index of triangleIndices is in 0..n-1, so
\* no output triangle names a super-triangle vertex n, n+1 or n+2, and the
\* length of the index list is a multiple of 3.
C2_IndicesAreInputPoints ==
    RunReturned =>
        /\ Len(triangleIndices) % 3 = 0
        /\ \A k \in 1..Len(triangleIndices) : triangleIndices[k] \in 0..(Len(pts) - 1)

\* C2 witness: the run returned triangles after dropping, from a longer
\* working list, the ones that touch the super-triangle
C2_Witness ==
    /\ pc = "triangulate"
    /\ Len(triangleIndices) >= 6
    /\ Len(tris) > Len(triangleIndices) \div 3

\* C1: for an input of at least 3 points every triangle Delaunay.run outputs
\* (before the micro-triangle culling) is a proper triangle whose
\* circumcircle has no input point strictly inside it, in every insertion
\* order (pts ranges over all orders of all point lists within the bounds).
C1_EmptyCircumcircle ==
    (RunReturned /\ Len(pts) >= 3) =>
        \A t \in OutputTriangles :
            /\ Cross(t[1], t[2], t[3]) # 0
            /\ \A k \in 1..Len(pts) : ~StrictlyInside(pts[k], t[1], t[2], t[3])

\* C1 witness: four distinct points gave two triangles, so the cavity of an
\* insertion was re-triangulated
C1_Witness ==
    /\ pc = "done"
    /\ Len(pts) = 4
    /\ Cardinality(Range(pts)) = 4
    /\ Cardinality(OutputTriangles) = 2

\* C10: triangulate on fewer than 3 points does not throw and returns the
\* empty list.
C10_TooFewPointsGiveEmptyList ==
    Len(pts) < 3 => /\ pc # "threw"
                    /\ pc = "done" => result = <<>>

\* C10 witness: triangulate returned for a list of two points
C10_Witness == pc = "done" /\ Len(pts) = 2 /\ result = <<>>

\* the k-th smallest entry of the non-empty list s, by counting
KthSmallest(s, k) ==
    CHOOSE v \in Range(s) :
        /\ Cardinality({j \in 1..Len(s) : s[j] < v}) < k
        /\ Cardinality({j \in 1..Len(s) : s[j] <= v}) >= k

\* twice the areas of the triangles before the filter
AreasBefore == [k \in 1..Len(unfiltered) |-> unfiltered[k].area2]

\* four times the median area before the filter: the middle area of an odd
\* count, the mean of the two middle areas of an even count
Median4 ==
    LET n == Len(unfiltered)
    IN  IF n % 2 = 1 THEN 2 * KthSmallest(AreasBefore, (n + 1) \div 2)
        ELSE KthSmallest(AreasBefore, n \div 2) + KthSmallest(AreasBefore, (n \div 2) + 1)

\* four times the area the code takes for the median: the entry at index
\* floor(n / 2) of the ascending areas, and 1 when that entry is 0
UpperMedian4 ==
    LET m == KthSmallest(AreasBefore, (Len(unfiltered) \div 2) + 1)
    IN  IF m = 0 THEN 4 ELSE 2 * m

\* area >= 0.28 x median, for twice the area and four times the median
AtOrAbove(area2, median4) == 100 * area2 >= 14 * median4

\* the survivors are triangles of the input, none below the cut, and every
\* input triangle at or above the cut survives
FilterCutsAt(median4) ==
    /\ Range(result) \subseteq Range(unfiltered)
    /\ \A t \in Range(result) : AtOrAbove(t.area2, median4)
    /\ \A t \in Range(unfiltered) : AtOrAbove(t.area2, median4) => t \in Range(result)

\* C7 as stated: after the filter no surviving triangle has area below
\* 0.28 x the median of the areas before the filter, and every triangle at or
\* above that cut survives.
C7_MedianCut ==
    (pc = "done" /\ unfiltered # <<>>) => FilterCutsAt(Median4)

\* C7 amended: the same with the median read as the entry at index
\* floor(n / 2) of the ascending areas (the upper of the two middle areas of
\* an even count), taken as 1 when that entry is 0.
C7_UpperMedianCut ==
    (pc = "done" /\ unfiltered # <<>>) => FilterCutsAt(UpperMedian4)

\* C7 witness: the filter removed a triangle and kept another
C7_Witness ==
    /\ pc = "done"
    /\ result # <<>>
    /\ Len(result) < Len(unfiltered)

----------------------------------------------------------------------------
(* classifyShapes(tris, threshold).  Coordinates of its triangles are in     *)
(* sixteenths, which doubles hold exactly, so that toFixed(1) rounds the     *)
(* exact value.                                                              *)

\* coordinates per unit
CoordUnit == 16
\* the input list has at most MaxTris triangles
MaxTris == 3

\* x.toFixed(1) for x = c / CoordUnit: the sign printed and the number of
\* tenths printed, the nearest one and the larger of two equally near
toFixed(c) == [neg |-> c < 0, tenths |-> (2 * 10 * Abs(c) + CoordUnit) \div (2 * CoordUnit)]

\* edgeKey: the strings a and b joined in string order, so the same key for
\* both directions of an edge: the set of the two strings
edgeKey(x1, y1, x2, y2) == { <<toFixed(x1), toFixed(y1)>>, <<toFixed(x2), toFixed(y2)>> }

\* `edges` of triangle t
EdgeKeysOf(t) ==
    << edgeKey(t.points[1].x, t.points[1].y, t.points[2].x, t.points[2].y),
       edgeKey(t.points[2].x, t.points[2].y, t.points[3].x, t.points[3].y),
       edgeKey(t.points[3].x, t.points[3].y, t.points[1].x, t.points[1].y) >>

\* if (!edgeMap.has(e)) edgeMap.set(e, []); edgeMap.get(e).push(idx)
EdgeMapPush(em, e, idx) ==
    IF \E k \in 1..Len(em) : em[k].key = e
    THEN [k \in 1..Len(em) |->
            IF em[k].key = e THEN [em[k] EXCEPT !.indices = Append(@, idx)] ELSE em[k]]
    ELSE Append(em, [key |-> e, indices |-> <<idx>>])

\* the three pushes of triangle idx
EdgeMapAfter(em, t, idx) ==
    LET es == EdgeKeysOf(t)
    IN  EdgeMapPush(EdgeMapPush(EdgeMapPush(em, es[1], idx), es[2], idx), es[3], idx)

RECURSIVE LinkNeighbors(_, _, _)
\* for (const [, indices] of edgeMap) from entry k on: an entry of exactly
\* two indices makes each the neighbour of the other
LinkNeighbors(em, nb, k) ==
    IF k > Len(em) THEN nb
    ELSE LET ix == em[k].indices
         IN  IF Len(ix) = 2
             THEN LET nb1 == [nb  EXCEPT ![ix[1] + 1] = Append(@, ix[2])]
                      nb2 == [nb1 EXCEPT ![ix[2] + 1] = Append(@, ix[1])]
                  IN  LinkNeighbors(em, nb2, k + 1)
             ELSE LinkNeighbors(em, nb, k + 1)

\* blendColors(t.points.map(p => parseRGB(p.color)))
BlendedColor(t) == blendColors([k \in 1..3 |-> parseRGB(t.points[k].color)])

\* colorDistance(avgC, nAvg) / 441.67 < threshold
Similar(t, u, thr) ==
    colorDistance(BlendedColor(t), BlendedColor(u)) * SettingsScale * 100 < thr * 44167

\* similarCount of triangle idx: one count per entry of its neighbour list
similarCount(ts, nb, idx, thr) ==
    Cardinality({k \in 1..Len(nb[idx + 1]) : Similar(ts[idx + 1], ts[nb[idx + 1][k] + 1], thr)})

\* t.area >= avgArea * 0.55, avgArea the sum of the areas over tris.length
LargeEnough(ts, idx) ==
    100 * Len(ts) * ts[idx + 1].area2 >= 55 * SumSeq([k \in 1..Len(ts) |-> ts[k].area2])

\* the test of the classification loop
IsPrimary(ts, nb, idx, thr) == LargeEnough(ts, idx) /\ similarCount(ts, nb, idx, thr) >= 2

\* mutant: detail.push(t) outside the else
DetailAfterAlways(det, idx, isPrimary) == Append(det, idx)

\* primary and detail after the pass of triangle idx
PrimaryAfter(pri, idx, isPrimary) == IF isPrimary THEN Append(pri, idx) ELSE pri
DetailAfter(det, idx, isPrimary) == IF isPrimary THEN det ELSE Append(det, idx)

\* the vertex positions of the input triangles: two of them print the same
\* (1/16 and 2/16 both print 0.1)
ClassPoints ==
    { [x |-> 1, y |-> 0], [x |-> 2, y |-> 0], [x |-> 32, y |-> 0],
      [x |-> 0, y |-> 32], [x |-> 32, y |-> 32] }

\* the colour strings of a triangle's vertices; one is not an rgb() string
BadString == [fmt |-> "other", r |-> 255, g |-> 255, b |-> 255]
Colourings ==
    { <<rgbToString(Black), rgbToString(Black), rgbToString(Black)>>,
      <<rgbToString(Red), rgbToString(Red), rgbToString(Red)>>,
      <<rgbToString(Red), rgbToString(Black), BadString>> }

\* the position p before q in a fixed order, to list each vertex set once
Before(p, q) == p.x < q.x \/ (p.x = q.x /\ p.y < q.y)

\* a Triangle as triangulate builds it
TriangleOf(p0, p1, p2, cs) ==
    [points |-> << [x |-> p0.x, y |-> p0.y, color |-> cs[1]],
                   [x |-> p1.x, y |-> p1.y, color |-> cs[2]],
                   [x |-> p2.x, y |-> p2.y, color |-> cs[3]] >>,
     centroid3 |-> [x |-> p0.x + p1.x + p2.x, y |-> p0.y + p1.y + p2.y],
     area2 |-> Area2(p0, p1, p2)]

InputTriangles ==
    { TriangleOf(p0, p1, p2, cs) :
        <<p0, p1, p2>> \in {t \in ClassPoints \X ClassPoints \X ClassPoints :
                               Before(t[1], t[2]) /\ Before(t[2], t[3])},
        cs \in Colourings }

InitClassify ==
    /\ pc = "edges"
    /\ \E n \in 0..MaxTris : ctris \in [1..n -> InputTriangles]
    /\ \E mood \in Moods : threshold = moodToSettings(mood).mergeThreshold
    /\ edgeMap = <<>>
    /\ neighbors = <<>>
    /\ ti = 0
    /\ primary = <<>>
    /\ detail = <<>>
    /\ img = "uniform" /\ w = MaxCoord /\ h = MaxCoord /\ pts = <<>>
    /\ IdleTri /\ IdlePoi /\ IdleChk /\ IdleMood /\ IdleGrd /\ IdleRest

\* one pass of the first loop: neighbors.set(i, []) and the edges of tris[i]
AddEdges ==
    /\ pc = "edges"
    /\ ti < Len(ctris)
    /\ neighbors' = Append(neighbors, <<>>)
    /\ edgeMap' = EdgeMapAfter(edgeMap, ctris[ti + 1], ti)
    /\ ti' = ti + 1
    /\ UNCHANGED <<pc, ctris, threshold, primary, detail, notCls>>

\* the loop over edgeMap
Link ==
    /\ pc = "edges"
    /\ ti = Len(ctris)
    /\ neighbors' = LinkNeighbors(edgeMap, neighbors, 1)
    /\ ti' = 0
    /\ pc' = "classify"
    /\ UNCHANGED <<ctris, threshold, edgeMap, primary, detail, notCls>>

\* one pass of the classification loop
ClassifyOne ==
    /\ pc = "classify"
    /\ ti < Len(ctris)
    /\ primary' = PrimaryAfter(primary, ti, IsPrimary(ctris, neighbors, ti, threshold))
    /\ detail' = DetailAfter(detail, ti, IsPrimary(ctris, neighbors, ti, threshold))
    /\ ti' = ti + 1
    /\ UNCHANGED <<pc, ctris, threshold, edgeMap, neighbors, notCls>>

\* return { primary, detail }
ReturnClassify ==
    /\ pc = "classify"
    /\ ti = Len(ctris)
    /\ pc' = "classified"
    /\ UNCHANGED <<clsVars, notCls>>

NextClassify == AddEdges \/ Link \/ ClassifyOne \/ ReturnClassify

SpecClassify == InitClassify /\ [][NextClassify]_vars

----------------------------------------------------------------------------
(* Claims on the classifier.  A triangle of the input is named by its index. *)

\* how often idx is in the list s
Occurrences(s, idx) == Cardinality({k \in 1..Len(s) : s[k] = idx})

\* C5: primary.length + detail.length equals triangles.length, and every
\* input triangle is in exactly one of the two lists.
C5_ListsPartitionInput ==
    pc = "classified" =>
        /\ Len(primary) + Len(detail) = Len(ctris)
        /\ \A idx \in 0..(Len(ctris) - 1) :
              Occurrences(primary, idx) + Occurrences(detail, idx) = 1

C5_Witness ==
    /\ pc = "classified"
    /\ primary # <<>>
    /\ detail # <<>>

\* the triangles that have an edge of key e
TrianglesOn(e) == {k \in 0..(Len(ctris) - 1) : e \in Range(EdgeKeysOf(ctris[k + 1]))}

\* the neighbours of triangle idx: the triangles sharing an edge with it,
\* the edge being shared by exactly two triangles
NeighboursOf(idx) ==
    {j \in 0..(Len(ctris) - 1) \ {idx} :
        \E e \in Range(EdgeKeysOf(ctris[idx + 1])) : TrianglesOn(e) = {idx, j}}

\* C6: a triangle is in primary if and only if its area is at least 0.55
\* times the mean area and at least 2 of its neighbours have a blended
\* colour within mergeThreshold of its own; every other triangle is in
\* detail.
C6_PrimaryRule ==
    pc = "classified" =>
        \A idx \in 0..(Len(ctris) - 1) :
            LET rule == /\ LargeEnough(ctris, idx)
                        /\ Cardinality({j \in NeighboursOf(idx) :
                               Similar(ctris[idx + 1], ctris[j + 1], threshold)}) >= 2
            IN  /\ idx \in Range(primary) <=> rule
                /\ idx \in Range(detail) <=> ~rule

----------------------------------------------------------------------------
(* chaikinSmooth(pts, iters).  After `it` rounds the list r holds each       *)
(* coordinate times 4^it.                                                    *)

\* input coordinates range over 0..MaxChaikinCoord
MaxChaikinCoord == 2
\* the input list has at most MaxChaikinLen points
MaxChaikinLen == 3
\* iters ranges over -1..MaxIters
MaxIters == 2

RECURSIVE Pow(_, _)
Pow(b, e) == IF e <= 0 THEN 1 ELSE b * Pow(b, e - 1)

\* mutant: the two points of an edge pushed in the other order
CutCornerSwapped(a, b) ==
    << [x |-> a.x + 3 * b.x, y |-> a.y + 3 * b.y],
       [x |-> 3 * a.x + b.x, y |-> 3 * a.y + b.y] >>

\* the two points pushed for the edge (a, b), times 4:
\* 0.75 a + 0.25 b, then 0.25 a + 0.75 b
CutCorner(a, b) ==
    << [x |-> 3 * a.x + b.x, y |-> 3 * a.y + b.y],
       [x |-> a.x + 3 * b.x, y |-> a.y + 3 * b.y] >>

\* np of one round over r, with b = r[(i + 1) % r.length]
ChaikinRound(rs) ==
    Flat([k \in 1..Len(rs) |-> CutCorner(rs[k], rs[(k % Len(rs)) + 1])])

ChaikinPoints == {[x |-> cx, y |-> cy] : cx, cy \in 0..MaxChaikinCoord}

InitChaikin ==
    /\ pc = "chaikin"
    /\ \E n \in 0..MaxChaikinLen : cpts \in [1..n -> ChaikinPoints]
    /\ iters \in -1..MaxIters
    /\ rlist = <<>>
    /\ it = 0
    /\ img = "uniform" /\ w = MaxCoord /\ h = MaxCoord /\ pts = <<>>
    /\ IdleTri /\ IdlePoi /\ IdleCls /\ IdleMood /\ IdleGrd /\ IdleRest

\* if (iters <= 0) return pts (rlist holds the returned list)
ReturnInput ==
    /\ pc = "chaikin"
    /\ iters <= 0
    /\ rlist' = cpts
    /\ pc' = "smoothed"
    /\ UNCHANGED <<cpts, iters, it, notChk>>

\* let r = [...pts]
CopyInput ==
    /\ pc = "chaikin"
    /\ iters > 0
    /\ rlist' = cpts
    /\ pc' = "round"
    /\ UNCHANGED <<cpts, iters, it, notChk>>

\* one pass of `for (let it = 0; it < iters; it++)`
Round ==
    /\ pc = "round"
    /\ it < iters
    /\ rlist' = ChaikinRound(rlist)
    /\ it' = it + 1
    /\ UNCHANGED <<pc, cpts, iters, notChk>>

\* return r
ReturnSmoothed ==
    /\ pc = "round"
    /\ it = iters
    /\ pc' = "smoothed"
    /\ UNCHANGED <<chkVars, notChk>>

NextChaikin == ReturnInput \/ CopyInput \/ Round \/ ReturnSmoothed

SpecChaikin == InitChaikin /\ [][NextChaikin]_vars

----------------------------------------------------------------------------
(* Claims on chaikinSmooth *)

\* the point (3a + b) / 4 and the point (a + 3b) / 4, over the denominator
\* 4 * den when a and b are over den
IsThreeToOne(p, a, b) == p.x = 3 * a.x + b.x /\ p.y = 3 * a.y + b.y

\* C8: with iterations = 0 the input list is returned unchanged; with
\* iterations = k > 0 a list of n points becomes n * 2^k points, each round
\* putting in the place of each cyclic edge (a, b) the two points
\* 0.75a + 0.25b and 0.25a + 0.75b, in that order.
C8_Chaikin ==
    /\ [](pc = "smoothed" /\ iters = 0 => rlist = cpts /\ it = 0)
    /\ [](pc = "smoothed" /\ iters > 0 =>
            it = iters /\ Len(rlist) = Len(cpts) * Pow(2, iters))
    /\ [][pc = "round" /\ it' = it + 1 =>
            /\ Len(rlist') = 2 * Len(rlist)
            /\ \A k \in 1..Len(rlist) :
                  LET a == rlist[k]
                      b == rlist[IF k = Len(rlist) THEN 1 ELSE k + 1]
                  IN  /\ IsThreeToOne(rlist'[2 * k - 1], a, b)
                      /\ IsThreeToOne(rlist'[2 * k], b, a)]_vars

C8_Witness ==
    /\ pc = "smoothed"
    /\ iters = 2
    /\ Len(cpts) = 3
    /\ Len(rlist) = 12
    /\ Cardinality(Range(cpts)) = 3

----------------------------------------------------------------------------
(* moodToSettings on two moods of the slider *)

\* the slider's max
MaxMood == 100

Fields ==
    {"pathSmoothing", "overlapAmount", "shapeOpacity", "adaptiveSensitivity",
     "minShapeScale", "mergeThreshold", "gradientConsistency", "baseGradientOpacity"}

InitMood ==
    /\ pc = "mood"
    /\ moodA \in 0..MaxMood
    /\ moodB \in moodA..MaxMood
    /\ setA = moodToSettings(0)
    /\ setB = moodToSettings(0)
    /\ img = "uniform" /\ w = MaxCoord /\ h = MaxCoord /\ pts = <<>>
    /\ IdleTri /\ IdlePoi /\ IdleCls /\ IdleChk /\ IdleGrd /\ IdleRest

\* the two calls
ApplyMood ==
    /\ pc = "mood"
    /\ setA' = moodToSettings(moodA)
    /\ setB' = moodToSettings(moodB)
    /\ pc' = "settings"
    /\ UNCHANGED <<moodA, moodB, notMood>>

NextMood == ApplyMood

SpecMood == InitMood /\ [][NextMood]_vars

----------------------------------------------------------------------------
(* Claims on moodToSettings *)

Between(v, a, b) == (a <= v /\ v <= b) \/ (b <= v /\ v <= a)

\* C9: for every mood in 0..100 each field of moodToSettings(mood) lies
\* between its values at mood 0 and at mood 100 and inside its documented
\* range (pathSmoothing 1..4, overlapAmount 1..1.2, shapeOpacity 0.6..0.98,
\* baseGradientOpacity 0..1), and each field is monotonic in mood: either
\* non-decreasing over the whole range or non-increasing over it.
C9_MoodRanges ==
    pc = "settings" =>
        /\ \A f \in Fields :
              /\ Between(setA[f], moodToSettings(0)[f], moodToSettings(MaxMood)[f])
              /\ IF moodToSettings(0)[f] <= moodToSettings(MaxMood)[f]
                 THEN setA[f] <= setB[f]
                 ELSE setA[f] >= setB[f]
        /\ setA.pathSmoothing \in 1..4
        /\ SettingsScale <= setA.overlapAmount /\ 10 * setA.overlapAmount <= 12 * SettingsScale
        /\ 100 * setA.shapeOpacity >= 60 * SettingsScale
        /\ 100 * setA.shapeOpacity <= 98 * SettingsScale
        /\ 0 <= setA.baseGradientOpacity /\ setA.baseGradientOpacity <= SettingsScale

C9_Witness ==
    /\ pc = "settings"
    /\ moodA = 30
    /\ moodB = 80
    /\ setA.pathSmoothing = 1
    /\ setB.pathSmoothing = 3
    /\ setA.shapeOpacity > setB.shapeOpacity

----------------------------------------------------------------------------
(* analyzeBaseGradient(ctx, w, h) and baseGradientDef(bg, w, h).  Sample     *)
(* positions are carried times 2 * gridSize, directions too.                 *)

\* images of the gradient analysis have sides 1..MaxSide
MaxSide == 6

gridSize == 6
PosDen == 2 * gridSize

\* the pictures the analysis is run on
GradImages == {"uniform", "white", "split", "bw", "wb", "bwRows", "wbRows", "rg", "grRows", "rw"}

\* getLuminance, times 1000
getLuminance(c) == 299 * c.r + 587 * c.g + 114 * c.b

\* the square of colorDistance.  (Math.sqrt is increasing and the squares
\* are integers below 2^18, whose roots are different doubles, so comparing
\* distances is comparing their squares.)
colorDistance2(c1, c2) ==
    (c1.r - c2.r) * (c1.r - c2.r) + (c1.g - c2.g) * (c1.g - c2.g)
        + (c1.b - c2.b) * (c1.b - c2.b)

\* Math.floor(clamp(n / d, 0, dim - 1)): the pixel coordinate read
PixelCoord(n, d, dim) == clamp(n, 0, d * (dim - 1)) \div d

\* the 9 offsets (dx, dy) of sampleRegionAvg, dy outermost
RegionOffsets ==
    << <<-1, -1>>, <<0, -1>>, <<1, -1>>, <<-1, 0>>, <<0, 0>>, <<1, 0>>,
       <<-1, 1>>, <<0, 1>>, <<1, 1>> >>

\* the pixels read by sampleRegionAvg(ctx, xn / d, yn / d, rn / d, w, h)
RegionReads(ww, hh, xn, yn, rn, d) ==
    [k \in 1..9 |->
        [px |-> PixelCoord(2 * xn + RegionOffsets[k][1] * rn, 2 * d, ww),
         py |-> PixelCoord(2 * yn + RegionOffsets[k][2] * rn, 2 * d, hh)]]

\* sampleRegionAvg(ctx, xn / d, yn / d, rn / d, w, h)
sampleRegionAvg(im, ww, hh, xn, yn, rn, d) ==
    LET reads == RegionReads(ww, hh, xn, yn, rn, d)
    IN  blendColors([k \in 1..9 |-> sampleRGB(im, ww, hh, reads[k].px, reads[k].py)])

\* the sample pushed for the grid cell (gx, gy): cx = (gx + 0.5) * cellW,
\* radius = min(cellW, cellH) * 0.3, all over 10 * gridSize
SampleOf(im, ww, hh, gx, gy) ==
    [color    |-> sampleRegionAvg(im, ww, hh, 5 * (2 * gx + 1) * ww, 5 * (2 * gy + 1) * hh,
                                  3 * Min2(ww, hh), 10 * gridSize),
     position |-> [x |-> (2 * gx + 1) * ww, y |-> (2 * gy + 1) * hh]]

\* mutant: the luminance test the other way round
PairStepReversed(ss, st, k, j) ==
    LET d2 == colorDistance2(ss[k + 1].color, ss[j + 1].color)
    IN  IF d2 > st.maxDist2
        THEN IF getLuminance(ss[k + 1].color) > getLuminance(ss[j + 1].color)
             THEN [maxDist2 |-> d2, from |-> ss[k + 1], to |-> ss[j + 1]]
             ELSE [maxDist2 |-> d2, from |-> ss[j + 1], to |-> ss[k + 1]]
        ELSE st

\* the body of the inner loop for the pair (k, j), on st = (maxDist, from, to)
PairStep(ss, st, k, j) ==
    LET d2 == colorDistance2(ss[k + 1].color, ss[j + 1].color)
    IN  IF d2 > st.maxDist2
        THEN IF getLuminance(ss[k + 1].color) < getLuminance(ss[j + 1].color)
             THEN [maxDist2 |-> d2, from |-> ss[k + 1], to |-> ss[j + 1]]
             ELSE [maxDist2 |-> d2, from |-> ss[j + 1], to |-> ss[k + 1]]
        ELSE st

RECURSIVE PairRow(_, _, _, _)
\* the inner loop of pass k, from j on
PairRow(ss, st, k, j) ==
    IF j >= Len(ss) THEN st ELSE PairRow(ss, PairStep(ss, st, k, j), k, j + 1)

\* a.position.x * dir.x2 + a.position.y * dir.y2, times PosDen * PosDen
Projection(a, dir) == a.position.x * dir.x2 + a.position.y * dir.y2

RECURSIVE InsertByProjection(_, _, _)
InsertByProjection(ss, a, dir) ==
    IF ss = <<>> THEN <<a>>
    ELSE IF Projection(a, dir) < Projection(Head(ss), dir) THEN <<a>> \o ss
    ELSE <<Head(ss)>> \o InsertByProjection(Tail(ss), a, dir)

RECURSIVE SortByProjection(_, _)
\* [...colors].sort(..): ascending projection, equal ones in their order
SortByProjection(ss, dir) ==
    IF ss = <<>> THEN <<>>
    ELSE InsertByProjection(SortByProjection(SubSeq(ss, 1, Len(ss) - 1), dir), ss[Len(ss)], dir)

\* mutant: one stop
StopCountOne(n) == 1

\* count = Math.min(sorted.length, 5)
StopCount(n) == Min2(n, 5)

\* the stops of baseGradientDef: offset i / (count - 1) and the colour
StopsOf(ss, dir) ==
    LET sorted == SortByProjection(ss, dir)
        count  == StopCount(Len(sorted))
        step   == Len(sorted) \div count
    IN  [k \in 1..count |->
            [offset |-> [n |-> k - 1, d |-> count - 1],
             color  |-> sorted[Min2((k - 1) * step, Len(sorted) - 1) + 1].color]]

InitGradient ==
    /\ pc = "sample"
    /\ img \in GradImages
    /\ w \in 1..MaxSide
    /\ h \in 1..MaxSide
    /\ pts = <<>>
    /\ IdleGrd /\ IdleRest
    /\ IdleTri /\ IdlePoi /\ IdleCls /\ IdleChk /\ IdleMood

\* one pass of the sampling loops (gy outer, gx inner); cellW = w / gridSize
\* and blendColors divides by the 9 colours
Sample ==
    /\ pc = "sample"
    /\ Len(samples) < gridSize * gridSize
    /\ samples' = Append(samples, SampleOf(img, w, h, Len(samples) % gridSize,
                                           Len(samples) \div gridSize))
    /\ denoms' = denoms \cup {gridSize, 9}
    /\ UNCHANGED <<pc, img, w, h, gi, maxDist2, gfrom, gto, direction, stops, notGrd>>

\* let maxDist = 0, from = samples[0], to = samples[0]
StartPairs ==
    /\ pc = "sample"
    /\ Len(samples) = gridSize * gridSize
    /\ maxDist2' = 0
    /\ gfrom' = samples[1]
    /\ gto' = samples[1]
    /\ gi' = 0
    /\ pc' = "pairs"
    /\ UNCHANGED <<img, w, h, samples, direction, stops, denoms, notGrd>>

\* one pass of the outer loop of the pair search
Pairs ==
    /\ pc = "pairs"
    /\ gi < Len(samples)
    /\ LET st == PairRow(samples, [maxDist2 |-> maxDist2, from |-> gfrom, to |-> gto],
                         gi, gi + 1)
       IN  /\ maxDist2' = st.maxDist2
           /\ gfrom' = st.from
           /\ gto' = st.to
    /\ gi' = gi + 1
    /\ UNCHANGED <<pc, img, w, h, samples, direction, stops, denoms, notGrd>>

\* return { colors, direction }: the positions divided by w and h
ReturnGradient ==
    /\ pc = "pairs"
    /\ gi = Len(samples)
    /\ direction' = [x1 |-> gfrom.position.x \div w, y1 |-> gfrom.position.y \div h,
                     x2 |-> gto.position.x \div w,   y2 |-> gto.position.y \div h]
    /\ denoms' = denoms \cup {w, h}
    /\ pc' = "analyzed"
    /\ UNCHANGED <<img, w, h, samples, gi, maxDist2, gfrom, gto, stops, notGrd>>

\* baseGradientDef(bg, w, h): step = floor(length / count), offset i / (count - 1)
BaseGradientDef ==
    /\ pc = "analyzed"
    /\ stops' = StopsOf(samples, direction)
    /\ denoms' = denoms \cup {StopCount(Len(samples)), StopCount(Len(samples)) - 1}
    /\ pc' = "defined"
    /\ UNCHANGED <<img, w, h, samples, gi, maxDist2, gfrom, gto, direction, notGrd>>

NextGradient == Sample \/ StartPairs \/ Pairs \/ ReturnGradient \/ BaseGradientDef

SpecGradient == InitGradient /\ [][NextGradient]_vars

----------------------------------------------------------------------------
(* Claims on analyzeBaseGradient *)

GradientReturned == pc \in {"analyzed", "defined"}

\* the largest squared colour distance of two samples
MaxPairDistance2 ==
    SetMax({colorDistance2(samples[k].color, samples[m].color) :
               k \in 1..Len(samples), m \in 1..Len(samples)})

\* the picture has a black half and a white half, both with pixels
BlackWhiteSplit ==
    \/ img \in {"bw", "wb"} /\ w >= 2
    \/ img \in {"bwRows", "wbRows"} /\ h >= 2

\* the pixel under the point (xn / PosDen * w, yn / PosDen * h)
PixelUnder(xn, yn) == Pixel(img, w, h, (xn * w) \div PosDen, (yn * h) \div PosDen)

\* C11: the returned direction starts and ends at the positions, as
\* fractions of width and height, of two of the 36 samples whose colour
\* distance is the largest of all pairs, the start sample's luminance at
\* most the end sample's; on a picture of a black half and a white half it
\* starts in the black half and ends in the white half.
C11_DirectionOfFarthestPair ==
    GradientReturned =>
        /\ \E k \in 1..Len(samples), m \in 1..Len(samples) :
              /\ direction.x1 * w = samples[k].position.x
              /\ direction.y1 * h = samples[k].position.y
              /\ direction.x2 * w = samples[m].position.x
              /\ direction.y2 * h = samples[m].position.y
              /\ colorDistance2(samples[k].color, samples[m].color) = MaxPairDistance2
              /\ getLuminance(samples[k].color) <= getLuminance(samples[m].color)
        /\ BlackWhiteSplit =>
              /\ PixelUnder(direction.x1, direction.y1) = Black
              /\ PixelUnder(direction.x2, direction.y2) = White

\* a white-then-black picture whose 36 samples include a blended one: the
\* pair found is turned round
C11_Witness ==
    /\ pc = "analyzed"
    /\ img = "wb"
    /\ w = 5
    /\ \E k \in 1..Len(samples) : samples[k].color \notin {Black, White}
    /\ direction.x1 > direction.x2
    /\ Len(samples) = gridSize * gridSize

UniformSamples == \A k \in 1..Len(samples) : samples[k].color = samples[1].color

\* C12: when all 36 samples have the same colour, analyzeBaseGradient and
\* baseGradientDef complete without a division by zero and the direction
\* has zero magnitude: x1 = x2 and y1 = y2.
C12_UniformNoDivisionByZero ==
    UniformSamples =>
        /\ 0 \notin denoms
        /\ GradientReturned => direction.x1 = direction.x2 /\ direction.y1 = direction.y2

C12_Witness ==
    /\ pc = "defined"
    /\ UniformSamples
    /\ Len(samples) = gridSize * gridSize
    /\ Len(stops) = 5
    /\ {w, h, 4} \subseteq denoms

----------------------------------------------------------------------------
(* The pipeline of processImage: moodToMinDistance, adaptivePoissonSampling, *)
(* addBoundaryPoints, triangulate                                            *)

\* moodToMinDistance(mood, width, height): Math.max(px, 24) with
\* px = min(width, height) * (0.035 + (mood / 100) * 0.11)
moodToMinDistance(mood, width, height) ==
    FracMax(Frac(24, 1),
            Frac(Max2(0, Min2(width, height)) * (3500 + 110 * mood), 100000))

RECURSIVE BorderAlongX(_, _, _, _)
\* for (let x = spacing; x < w; x += spacing): (x, 0) and (x, h), from x on
BorderAlongX(x, ww, hh, spacing) ==
    IF x < ww
    THEN << [x |-> x, y |-> 0], [x |-> x, y |-> hh] >> \o BorderAlongX(x + spacing, ww, hh, spacing)
    ELSE <<>>

RECURSIVE BorderAlongY(_, _, _, _)
\* for (let y = spacing; y < h; y += spacing): (0, y) and (w, y), from y on
BorderAlongY(y, ww, hh, spacing) ==
    IF y < hh
    THEN << [x |-> 0, y |-> y], [x |-> ww, y |-> y] >> \o BorderAlongY(y + spacing, ww, hh, spacing)
    ELSE <<>>

\* mutant: the two loops start at 0
addBoundaryPointsFromZero(ps, ww, hh, spacing) ==
    ps \o << [x |-> 0, y |-> 0], [x |-> ww, y |-> 0], [x |-> 0, y |-> hh], [x |-> ww, y |-> hh] >>
       \o BorderAlongX(0, ww, hh, spacing) \o BorderAlongY(0, ww, hh, spacing)

\* addBoundaryPoints(pts, w, h, spacing), for spacing > 0
addBoundaryPoints(ps, ww, hh, spacing) ==
    ps \o << [x |-> 0, y |-> 0], [x |-> ww, y |-> 0], [x |-> 0, y |-> hh], [x |-> ww, y |-> hh] >>
       \o BorderAlongX(spacing, ww, hh, spacing) \o BorderAlongY(spacing, ww, hh, spacing)

\* widths and heights the pipeline is run on: even, so that the centre has
\* integer coordinates, and zero or negative but for one; a height below
\* minus one grid cell is paired with the positive width only
PipelineSizes == ({-2, 0, 2} \X {-2, 0, 2}) \cup {<<2, -18>>}

\* processImage up to the call of adaptivePoissonSampling
InitPipeline ==
    /\ pc = "pipeline"
    /\ img \in Images
    /\ \E size \in PipelineSizes : w = size[1] /\ h = size[2]
    /\ \E mood \in Moods :
          /\ settings = moodToSettings(mood)
          /\ moodToMinDistance(mood, w, h).d = 1
          /\ baseMinDist = moodToMinDistance(mood, w, h).n
    /\ maxAttempts \in 1..MaxAttemptsBound
    /\ pts = <<>>
    /\ grid = <<>>
    /\ active = <<>>
    /\ ri = 0
    /\ attempts = 0
    /\ mark = [set |-> FALSE, n |-> 0, cfg |-> <<>>]
    /\ IdleTri /\ IdleCls /\ IdleChk /\ IdleMood /\ IdleGrd /\ IdleRest

\* adaptivePoissonSampling up to its loop: Array(gh) throws a RangeError
\* for a negative gh, and is called once per column of the grid
StartSampling ==
    /\ pc = "pipeline"
    /\ IF GridW >= 1 /\ GridH < 0
       THEN /\ pc' = "threw"
            /\ UNCHANGED <<pts, grid, active>>
       ELSE /\ pts' = << [x |-> w \div 2, y |-> h \div 2] >>
            /\ active' = <<0>>
            /\ grid' = GridAfterAdd(<<>>,
                                    [ci \in 0..(GridW - 1) |-> [cj \in 0..(GridH - 1) |-> NullIdx]],
                                    baseMinDist, GridW, GridH,
                                    [x |-> w \div 2, y |-> h \div 2])
            /\ pc' = "while"
    /\ UNCHANGED <<img, w, h, baseMinDist, settings, maxAttempts, ri, attempts, mark, notPoi>>

\* pts = addBoundaryPoints(pts, width, height, minDist)
AddBoundary ==
    /\ pc = "returned"
    /\ pts' = addBoundaryPoints(pts, w, h, baseMinDist)
    /\ pc' = "run"
    /\ UNCHANGED <<img, w, h, poiVars, notPoi>>

NextPipeline ==
    \/ StartSampling \/ Pick \/ Attempt \/ Drop \/ Return
    \/ AddBoundary
    \/ RunStart \/ Insert \/ RunFinish \/ Triangulate

SpecPipeline == InitPipeline /\ [][NextPipeline]_vars

----------------------------------------------------------------------------
(* Claims on the pipeline *)

\* C13: with a width or a height that is zero or negative the pipeline
\* fails: it does not return a triangle list.
C13_InvalidDimensionsFail ==
    (w <= 0 \/ h <= 0) => pc # "done"

----------------------------------------------------------------------------
(* addBoundaryPoints followed by triangulate, on any sampled point list *)

MaxCoverSide == 3
MaxInterior == 2

\* the points the sampler can return for a w x h image: 0 <= x < w, 0 <= y < h
Sampled(ww, hh) == {[x |-> x, y |-> y] : x \in 0..(ww - 1), y \in 0..(hh - 1)}

\* pts = sampled points, about to go through addBoundaryPoints(pts, w, h, spacing);
\* the spacing is held in baseMinDist, as processImage passes minDist
InitCover ==
    /\ pc = "returned"
    /\ img \in Images
    /\ w \in 1..MaxCoverSide /\ h \in 1..MaxCoverSide
    /\ baseMinDist \in 1..MaxCoverSide
    /\ \E n \in 0..MaxInterior : pts \in [1..n -> Sampled(w, h)]
    /\ settings = moodToSettings(0)
    /\ maxAttempts = 0 /\ grid = <<>> /\ active = <<>> /\ ri = 0 /\ attempts = 0
    /\ mark = [set |-> FALSE, n |-> 0, cfg |-> <<>>]
    /\ IdleTri /\ IdleCls /\ IdleChk /\ IdleMood /\ IdleGrd /\ IdleRest

NextCover == AddBoundary \/ RunStart \/ Insert \/ RunFinish \/ Triangulate

SpecCover == InitCover /\ [][NextCover]_vars

\* twice the area of the triangles of ts together
TotalArea2(ts) == SumSeq([k \in 1..Len(ts) |-> ts[k].area2])

\* the line through a and b has c strictly on one side and no vertex of u
\* strictly on that side
Separates(a, b, c, u) ==
    \/ Cross(a, b, c) > 0 /\ \A k \in 1..3 : Cross(a, b, u.points[k]) <= 0
    \/ Cross(a, b, c) < 0 /\ \A k \in 1..3 : Cross(a, b, u.points[k]) >= 0

SeparatedByEdgeOf(t, u) ==
    \/ Separates(t.points[1], t.points[2], t.points[3], u)
    \/ Separates(t.points[2], t.points[3], t.points[1], u)
    \/ Separates(t.points[3], t.points[1], t.points[2], u)

\* two triangles share no interior point: one has no interior, or an edge of
\* one of them separates them
InteriorDisjoint(t, u) ==
    \/ t.area2 = 0 \/ u.area2 = 0
    \/ SeparatedByEdgeOf(t, u) \/ SeparatedByEdgeOf(u, t)

Tiles(ts, ww, hh) ==
    /\ \A k, l \in 1..Len(ts) : k # l => InteriorDisjoint(ts[k], ts[l])
    /\ TotalArea2(ts) = 2 * ww * hh

\* C14: the triangles triangulate returns for a point list that went through
\* addBoundaryPoints are interior-disjoint and their areas sum to w x h.
C14_TrianglesCoverBox ==
    pc = "done" => Tiles(result, w, h)

----------------------------------------------------------------------------
(* triangulate on any index list: the loop over idx and filterSmallTriangles
   do not depend on how Delaunay.run chose the triples, and in doubles the
   in-circle test can let through a triple that exact arithmetic excludes *)

MaxFilterTris == 2

HalfGrid == {[x |-> x, y |-> y] : x \in 0..MaxHalfSide, y \in 0..MaxHalfSide}

\* index triples over four points
IndexTriples == {<<0, 1, 2>>, <<0, 1, 3>>, <<0, 2, 3>>, <<1, 2, 3>>}

\* triangulate after `new Delaunay(pts)`, with idx any list of index triples
InitFilter ==
    /\ pc = "triangulate"
    /\ img \in Images
    /\ w = MaxHalfSide /\ h = MaxHalfSide
    /\ pts \in [1..4 -> HalfGrid]
    /\ i = 4
    /\ tris = <<>>
    /\ \E n \in 0..MaxFilterTris : \E ts \in [1..n -> IndexTriples] : triangleIndices = Flat(ts)
    /\ unfiltered = <<>>
    /\ result = <<>>
    /\ IdleButTri

NextFilter == Triangulate

SpecFilter == InitFilter /\ [][NextFilter]_vars

\* the middle entry of the ascending areas before the filter, before `|| 1`
MiddleArea2Before ==
    SortAsc([k \in 1..Len(unfiltered) |-> unfiltered[k].area2])[(Len(unfiltered) \div 2) + 1]

\* C15: no triangle returned by triangulate has area 0 (and none a negative
\* area), also when the median of the areas is 0.
C15_NoZeroAreaReturned ==
    pc = "done" => \A k \in 1..Len(result) : result[k].area2 > 0

\* a triangle with collinear vertices was built, the median area was 0, and
\* triangulate returned
C15_Witness ==
    /\ pc = "done"
    /\ \E k \in 1..Len(unfiltered) : unfiltered[k].area2 = 0
    /\ MiddleArea2Before = 0
    /\ Len(result) < Len(unfiltered)

----------------------------------------------------------------------------
(* Claims on addBoundaryPoints *)

\* the multiples m of spacing with 0 < m < side
MultiplesBelow(spacing, side) == {k * spacing : k \in 1..side} \cap 1..(side - 1)

Corners(ww, hh) ==
    << [x |-> 0, y |-> 0], [x |-> ww, y |-> 0], [x |-> 0, y |-> hh], [x |-> ww, y |-> hh] >>

\* the points the claim lists after the corners
EdgePoints(ww, hh, spacing) ==
    {[x |-> x, y |-> y] : x \in MultiplesBelow(spacing, ww), y \in {0, hh}}
    \cup {[x |-> x, y |-> y] : x \in {0, ww}, y \in MultiplesBelow(spacing, hh)}

OnBorder(p, ww, hh) ==
    /\ p.x \in 0..ww /\ p.y \in 0..hh
    /\ p.x \in {0, ww} \/ p.y \in {0, hh}

\* out is ps followed by the corners and the edge points, each once
IsBoundaryExtension(ps, out, ww, hh, spacing) ==
    LET bp == SubSeq(out, Len(ps) + 1, Len(out))
    IN  /\ Len(out) >= Len(ps) + 4
        /\ SubSeq(out, 1, Len(ps)) = ps
        /\ SubSeq(bp, 1, 4) = Corners(ww, hh)
        /\ Range(SubSeq(bp, 5, Len(bp))) = EdgePoints(ww, hh, spacing)
        /\ \A k \in 1..Len(bp) : OnBorder(bp[k], ww, hh)
        /\ \A k, l \in 1..Len(bp) : k # l => bp[k] # bp[l]

\* C16: addBoundaryPoints(pts, w, h, spacing) returns pts, in order, followed
\* by the four corners and the points at the multiples of spacing on the four
\* borders, every appended point on the border and none appended twice.
C16_BoundaryPointsAppended ==
    [][(pc = "returned" /\ pc' = "run")
        => IsBoundaryExtension(pts, pts', w, h, baseMinDist)]_vars

\* addBoundaryPoints has returned a list with sampled points, corners and
\* points on all four borders
C16_Witness ==
    /\ pc = "run"
    /\ MultiplesBelow(baseMinDist, w) # {}
    /\ MultiplesBelow(baseMinDist, h) # {}
    /\ Len(pts) > 4 + Cardinality(EdgePoints(w, h, baseMinDist))

----------------------------------------------------------------------------
(* The pixel reads of the sampling functions, each called on its own.
   pts holds the input of the call, pixelReads the coordinates that reach
   getImageData after clamp and Math.floor. *)

MaxReadSide == 3
MaxOver == 2
MaxRadius == 3

\* input coordinates: from MaxOver before the image to MaxOver past its far
\* border, so x = w and y = h are among them
InputPoints(ww, hh) ==
    {[x |-> x, y |-> y] : x \in (0 - MaxOver)..(ww + MaxOver), y \in (0 - MaxOver)..(hh + MaxOver)}

\* regionVariance(ctx, x, y, radius, w, h): the centre and the 8 probes
VarianceReads(ww, hh, x, y, radius) ==
    {[px |-> clamp(x, 0, ww - 1), py |-> clamp(y, 0, hh - 1)]}
    \cup {[px |-> ProbeCoord(x, ProbeDirs[k][1], radius, ww),
           py |-> ProbeCoord(y, ProbeDirs[k][2], radius, hh)] : k \in 1..8}

\* triangulate: sampleColor(ctx, clamp(p.x, 0, w - 1), clamp(p.y, 0, h - 1))
VertexRead(ww, hh, p) == [px |-> clamp(p.x, 0, ww - 1), py |-> clamp(p.y, 0, hh - 1)]

\* shapeGradientDef and shapeRadialDef: sampleRGB at the clamped centroid,
\* the centroid being (p0 + p1 + p2) / 3
CentroidRead(ww, hh, p0, p1, p2) ==
    [px |-> PixelCoord(p0.x + p1.x + p2.x, 3, ww), py |-> PixelCoord(p0.y + p1.y + p2.y, 3, hh)]

InitReads ==
    /\ pc = "reads"
    /\ img \in Images
    /\ w \in 1..MaxReadSide /\ h \in 1..MaxReadSide
    /\ pts = <<>>
    /\ IdleTri /\ IdlePoi /\ IdleCls /\ IdleChk /\ IdleMood /\ IdleGrd /\ IdleRest

CallRegionVariance ==
    /\ pc = "reads"
    /\ \E p \in InputPoints(w, h), radius \in 1..MaxRadius :
        /\ pts' = <<p>>
        /\ pixelReads' = VarianceReads(w, h, p.x, p.y, radius)
    /\ pc' = "sampled"
    /\ UNCHANGED notRd

CallSampleRegionAvg ==
    /\ pc = "reads"
    /\ \E p \in InputPoints(w, h), radius \in 1..MaxRadius :
        /\ pts' = <<p>>
        /\ pixelReads' = Range(RegionReads(w, h, p.x, p.y, radius, 1))
    /\ pc' = "sampled"
    /\ UNCHANGED notRd

\* one vertex of the triangle loop of triangulate
CallVertexSample ==
    /\ pc = "reads"
    /\ \E p \in InputPoints(w, h) :
        /\ pts' = <<p>>
        /\ pixelReads' = {VertexRead(w, h, p)}
    /\ pc' = "sampled"
    /\ UNCHANGED notRd

\* the centroid sample of shapeGradientDef / shapeRadialDef for a triangle of
\* corner and border points
CallCentroidSample ==
    /\ pc = "reads"
    /\ \E p0, p1, p2 \in Range(addBoundaryPoints(<<>>, w, h, 1)) :
        /\ pts' = <<p0, p1, p2>>
        /\ pixelReads' = {CentroidRead(w, h, p0, p1, p2)}
    /\ pc' = "sampled"
    /\ UNCHANGED notRd

NextReads == CallRegionVariance \/ CallSampleRegionAvg \/ CallVertexSample \/ CallCentroidSample

SpecReads == InitReads /\ [][NextReads]_vars

\* C17: for w, h >= 1 every pixel read of regionVariance, sampleRegionAvg,
\* the vertex sampling and the centroid sampling lies in [0, w-1] x [0, h-1],
\* whatever the input coordinates, and no call fails.
C17_ReadsInsideImage ==
    /\ pc # "threw"
    /\ \A rd \in pixelReads : rd.px \in 0..(w - 1) /\ rd.py \in 0..(h - 1)

\* a call with the input on the far corner (w, h), read at (w - 1, h - 1)
C17_Witness ==
    /\ pc = "sampled"
    /\ Len(pts) = 1 /\ pts[1].x = w /\ pts[1].y = h
    /\ [px |-> w - 1, py |-> h - 1] \in pixelReads

----------------------------------------------------------------------------
(* generateDesignerSVG(tris, w, h, mood, ctx).  The returned string is kept
   as its elements: svgDefs lists the gradients of <defs>, svgLayers the
   three <g> with their children.  A path's `d` and a gradient's stops are
   computed from one triangle each and are kept as that triangle's index. *)

MaxSvgTris == 2

\* moods the scene is composed for; 1 gives a shapeOpacity with three decimals
SvgMoods == {0, 1, 50, 100}

\* (n / d).toFixed(2) for n / d >= 0, as the hundredths it prints
toFixed2(n, d) == RoundDiv(100 * n, d)

\* `pg-${i}` and `dg-${i}`
PrimaryId(k) == <<"pg", k>>

\* mutant: the detail gradients are numbered like the primary ones
DetailIdAsPrimary(k) == <<"pg", k>>

DetailId(k) == <<"dg", k>>

\* shapeRadialDef(tri, id, ctx, w, h): a <radialGradient id=..>
shapeRadialDef(idx, id) == [kind |-> "radialGradient", id |-> id, tri |-> idx]

\* shapeGradientDef(tri, id, gDir, consistency, ctx, w, h): a <linearGradient id=..>
shapeGradientDef(idx, id) == [kind |-> "linearGradient", id |-> id, tri |-> idx]

\* `<path d=.. fill="url(#id)" opacity=.. />`
PathElement(idx, id, opacity) == [tri |-> idx, fill |-> id, opacity |-> opacity]

\* settings.shapeOpacity.toFixed(2)
PrimaryOpacity(st) == toFixed2(st.shapeOpacity, SettingsScale)

\* (settings.shapeOpacity * 0.88).toFixed(2)
DetailOpacity(st) == toFixed2(st.shapeOpacity * 88, SettingsScale * 100)

\* baseGradientDef's <linearGradient id="base-gradient">, and the <rect>
BaseId == <<"base-gradient">>
BaseDef == [kind |-> "linearGradient", id |-> BaseId, tri |-> NullIdx]
BaseRect(st) ==
    [tri |-> NullIdx, fill |-> BaseId, opacity |-> toFixed2(st.baseGradientOpacity, SettingsScale)]

\* pGrads and pPaths after primary.forEach
PGrads(prim) == [k \in 1..Len(prim) |-> shapeRadialDef(prim[k], PrimaryId(k - 1))]
PPaths(prim, st) ==
    [k \in 1..Len(prim) |-> PathElement(prim[k], PrimaryId(k - 1), PrimaryOpacity(st))]

\* dGrads and dPaths after detail.forEach
DGrads(det) == [k \in 1..Len(det) |-> shapeGradientDef(det[k], DetailId(k - 1))]
DPaths(det, st) ==
    [k \in 1..Len(det) |-> PathElement(det[k], DetailId(k - 1), DetailOpacity(st))]

InitSvg ==
    /\ pc = "edges"
    /\ \E n \in 0..MaxSvgTris : ctris \in [1..n -> InputTriangles]
    /\ \E mood \in SvgMoods :
        /\ settings = moodToSettings(mood)
        /\ threshold = moodToSettings(mood).mergeThreshold
    /\ edgeMap = <<>>
    /\ neighbors = <<>>
    /\ ti = 0
    /\ primary = <<>>
    /\ detail = <<>>
    /\ img = "uniform" /\ w = MaxCoord /\ h = MaxCoord /\ pts = <<>>
    /\ baseMinDist = 0 /\ maxAttempts = 0 /\ grid = <<>> /\ active = <<>>
    /\ ri = 0 /\ attempts = 0
    /\ mark = [set |-> FALSE, n |-> 0, cfg |-> <<>>]
    /\ IdleTri /\ IdleChk /\ IdleMood /\ IdleGrd /\ IdleRest

\* `if (ctx)`: the call of analyzeBaseGradient after classifyShapes returned
StartBase ==
    /\ pc = "classified"
    /\ pc' = "sample"
    /\ UNCHANGED <<svgVars, notSvg>>

\* the two forEach loops and the returned template, after baseGradientDef
EmitSvg ==
    /\ pc = "defined"
    /\ svgDefs' = <<BaseDef>> \o PGrads(primary) \o DGrads(detail)
    /\ svgLayers' =
        << [id |-> "Base-Gradient", children |-> <<BaseRect(settings)>>],
           [id |-> "Primary-Shapes", children |-> PPaths(primary, settings)],
           [id |-> "Detail-Shapes", children |-> DPaths(detail, settings)] >>
    /\ pc' = "svg"
    /\ UNCHANGED notSvg

NextSvg ==
    \/ AddEdges \/ Link \/ ClassifyOne \/ ReturnClassify
    \/ StartBase
    \/ Sample \/ StartPairs \/ Pairs \/ ReturnGradient \/ BaseGradientDef
    \/ EmitSvg

SpecSvg == InitSvg /\ [][NextSvg]_vars

----------------------------------------------------------------------------
(* Claims on generateDesignerSVG *)

\* the gradients of <defs> with the id `id`
DefsWithId(id) == {k \in 1..Len(svgDefs) : svgDefs[k].id = id}

\* the paths of layer number l that were computed from the triangle idx
PathsOf(l, idx) ==
    {k \in 1..Len(svgLayers[l].children) : svgLayers[l].children[k].tri = idx}

\* every path of layer l has a fill id of the family `family`, defined once
\* in <defs> as a gradient of the kind `kind`, and the opacity v / scale
\* printed with two decimals
LayerPathsAre(l, family, kind, v, scale) ==
    \A k \in 1..Len(svgLayers[l].children) :
        LET q == svgLayers[l].children[k]
        IN  /\ Len(q.fill) = 2 /\ q.fill[1] = family
            /\ Cardinality(DefsWithId(q.fill)) = 1
            /\ \A m \in DefsWithId(q.fill) : svgDefs[m].kind = kind
            /\ 2 * Abs(q.opacity * scale - 100 * v) <= scale

\* C18: three layers in the order Base-Gradient, Primary-Shapes,
\* Detail-Shapes; every input triangle has exactly one path, in the primary
\* layer with a radial fill or in the detail layer with a linear fill, as
\* classifyShapes put it; each fill id pg-i / dg-i is defined once in defs;
\* primary paths carry shapeOpacity, detail paths shapeOpacity x 0.88 (as
\* printed, to two decimals).
C18_LayersAndPaths ==
    pc = "svg" =>
        /\ [l \in 1..Len(svgLayers) |-> svgLayers[l].id]
              = <<"Base-Gradient", "Primary-Shapes", "Detail-Shapes">>
        /\ Len(svgLayers[2].children) + Len(svgLayers[3].children) = Len(ctris)
        /\ \A idx \in 0..(Len(ctris) - 1) :
              /\ Cardinality(PathsOf(2, idx)) + Cardinality(PathsOf(3, idx)) = 1
              /\ Cardinality(PathsOf(2, idx)) = Occurrences(primary, idx)
              /\ Cardinality(PathsOf(3, idx)) = Occurrences(detail, idx)
        /\ LayerPathsAre(2, "pg", "radialGradient", settings.shapeOpacity, SettingsScale)
        /\ LayerPathsAre(3, "dg", "linearGradient", settings.shapeOpacity * 88, SettingsScale * 100)

\* a scene with a primary and a detail path whose opacities needed rounding
C18_Witness ==
    /\ pc = "svg"
    /\ svgLayers[2].children # <<>>
    /\ svgLayers[3].children # <<>>
    /\ settings.shapeOpacity % 100 # 0

----------------------------------------------------------------------------
(* Further claims on the sampler *)

\* the first point is the centre and every point is inside the image
PointsInsideImage ==
    /\ pts[1] = [x |-> w \div 2, y |-> h \div 2]
    /\ \A k \in 1..Len(pts) : 0 <= pts[k].x /\ pts[k].x < w /\ 0 <= pts[k].y /\ pts[k].y < h

\* a step that changes the active list either appends the index of the point
\* it adds, or removes the entry at ri after maxAttempts rejections
ActiveStep ==
    \/ /\ pts' = Append(pts, pts'[Len(pts')])
       /\ active' = Append(active, Len(pts))
    \/ /\ pc = "attempt" /\ attempts = maxAttempts
       /\ pts' = pts
       /\ Len(active') = Len(active) - 1
       /\ \A k \in 1..Len(active') : active'[k] = IF k <= ri THEN active[k] ELSE active[k + 1]

\* the attempt counter restarts at the head of a pass and counts the
\* rejected candidates of the pass: a rejection adds one and changes neither
\* the points nor the active list nor the source point
CountsRejections ==
    \/ pc = "while" /\ attempts' = 0
    \/ /\ pc = "attempt" /\ attempts' = attempts + 1
       /\ pts' = pts /\ active' = active /\ ri' = ri

\* C19: in adaptivePoissonSampling with w, h > 0 the first point is the
\* centre (w/2, h/2), every point has 0 <= x < w and 0 <= y < h, an active
\* point leaves the active list only after maxAttempts consecutive rejected
\* candidates around it, and an index that left never comes back.
C19_SamplerBehaviour ==
    /\ [](w > 0 /\ h > 0 => PointsInsideImage)
    /\ [][active' # active => ActiveStep]_vars
    /\ [][attempts' # attempts => CountsRejections]_vars
    /\ [][\A idx \in Range(active') \ Range(active) : idx \notin 0..(Len(pts) - 1)]_vars

\* the sampler returned more than the centre: every index was dropped
C19_Witness ==
    /\ pc = "returned"
    /\ Len(pts) >= 3
    /\ active = <<>>

----------------------------------------------------------------------------
(* Further claims on the classifier *)

\* the neighbour lists are complete once the loop over edgeMap has run
NeighboursBuilt == pc \in {"classify", "classified"}

NoSelfNeighbour ==
    \A idx \in 0..(Len(ctris) - 1) : Occurrences(neighbors[idx + 1], idx) = 0

SymmetricNeighbours ==
    \A idx, j \in 0..(Len(ctris) - 1) :
        Occurrences(neighbors[idx + 1], j) = Occurrences(neighbors[j + 1], idx)

\* C20: in classifyShapes no triangle is recorded as its own neighbour, and
\* triangle i is a neighbour of j as many times as j is a neighbour of i,
\* also when vertex coordinates coincide after rounding to one decimal.
C20_NeighboursIrreflexiveSymmetric ==
    NeighboursBuilt => NoSelfNeighbour /\ SymmetricNeighbours

----------------------------------------------------------------------------
(* computeGlobalDir(tris).  len is a square root, so the returned vector is
   kept as the numerators (dx, dy) and the square len2 of the divisor. *)

MaxDirTris == 2

\* the colourings of the classifier's triangles, and one whose light vertex
\* is the second one, so that two light-to-dark vectors can cancel
DirColourings ==
    Colourings \cup { <<rgbToString(Black), rgbToString(Red), rgbToString(Black)>> }

DirTriangles ==
    { TriangleOf(p0, p1, p2, cs) :
        <<p0, p1, p2>> \in {t \in ClassPoints \X ClassPoints \X ClassPoints :
                               Before(t[1], t[2]) /\ Before(t[2], t[3])},
        cs \in DirColourings }

\* lums[k - 1] of the triangle t
Lum(t, k) == getLuminance(parseRGB(t.points[k].color))

\* minI and maxI after `for (let i = 1; i < 3; i++)`, as positions 1..3
MinI(t) ==
    LET m1 == IF Lum(t, 2) < Lum(t, 1) THEN 2 ELSE 1
    IN  IF Lum(t, 3) < Lum(t, m1) THEN 3 ELSE m1
MaxI(t) ==
    LET m1 == IF Lum(t, 2) > Lum(t, 1) THEN 2 ELSE 1
    IN  IF Lum(t, 3) > Lum(t, m1) THEN 3 ELSE m1

\* tdx and tdy after the loop over ts
Tdx(ts) == SumSeq([k \in 1..Len(ts) |-> ts[k].points[MaxI(ts[k])].x - ts[k].points[MinI(ts[k])].x])
Tdy(ts) == SumSeq([k \in 1..Len(ts) |-> ts[k].points[MaxI(ts[k])].y - ts[k].points[MinI(ts[k])].y])

\* `Math.sqrt(tdx * tdx + tdy * tdy) || 1`, squared
Len2(dx, dy) == IF dx * dx + dy * dy = 0 THEN 1 ELSE dx * dx + dy * dy

computeGlobalDir(ts) ==
    IF Len(ts) = 0 THEN [dx |-> 1, dy |-> 0, len2 |-> 1]
    ELSE [dx |-> Tdx(ts), dy |-> Tdy(ts), len2 |-> Len2(Tdx(ts), Tdy(ts))]

InitGlobalDir ==
    /\ pc = "globalDir"
    /\ \E n \in 0..MaxDirTris : ctris \in [1..n -> DirTriangles]
    /\ threshold = 0
    /\ edgeMap = <<>>
    /\ neighbors = <<>>
    /\ ti = 0
    /\ primary = <<>>
    /\ detail = <<>>
    /\ img = "uniform" /\ w = MaxCoord /\ h = MaxCoord /\ pts = <<>>
    /\ IdleTri /\ IdlePoi /\ IdleChk /\ IdleMood /\ IdleGrd /\ IdleRest

\* const gDir = computeGlobalDir(tris)
CallComputeGlobalDir ==
    /\ pc = "globalDir"
    /\ gDir' = computeGlobalDir(ctris)
    /\ pc' = "dirReturned"
    /\ UNCHANGED notDir

NextGlobalDir == CallComputeGlobalDir

SpecGlobalDir == InitGlobalDir /\ [][NextGlobalDir]_vars

\* C21: computeGlobalDir never returns the zero vector: the result is the
\* fallback (1, 0) or the aggregate vector scaled to unit length.
C21_DirectionNeverZero ==
    pc = "dirReturned" =>
        /\ ~(gDir.dx = 0 /\ gDir.dy = 0)
        /\ gDir.dx * gDir.dx + gDir.dy * gDir.dy = gDir.len2

-----------------------------------------------------------------------------
(* MeshVectorizer (components/mesh-vectorizer.tsx) and UploadDropzone.      *)
(* A picture is named by its data URL; a result (triangles, svgOutput) is   *)
(* named by the picture and the mood processImage computed it from.  The    *)
(* part of processImage after `await` is one step: nothing in it yields.    *)

MaxReaders == 2
MaxRuns == 2

\* files the dropzone accepts (isValidFile): two pictures, one Illustrator file
Files == {"a.png", "b.png", "c.ai"}
UiMoods == {0, InitialMood}

\* reader.readAsDataURL(file): e.target.result
DataUrl(f) ==
    CASE f = "a.png" -> "data:image/png;a"
      [] f = "b.png" -> "data:image/png;b"
      [] f = "c.ai" -> "data:application/postscript;c"

\* img.src = imageSrc: onload for a picture the browser decodes, onerror else
Decodes(url) == url \in {DataUrl("a.png"), DataUrl("b.png")}

\* what newTriangles and svg are computed from: (imageSrc, currentMood)
ResultOf(url, m) == [src |-> url, mood |-> m]

InitUi ==
    /\ pc = "ui"
    /\ img = "uniform" /\ w = MaxCoord /\ h = MaxCoord /\ pts = <<>>
    /\ IdleTri /\ IdleButTri

\* the dropzone is rendered while originalImage is null; handleDrop returns
\* when isProcessing, and the file input is disabled when isProcessing
DropzoneOpen == originalImage = NoImage /\ ~isProcessing

\* the slider and the Regenerate and Clear buttons are rendered while
\* originalImage is set, and disabled when isProcessing
ControlsEnabled == originalImage # NoImage /\ ~isProcessing

\* processImage up to its await: setIsProcessing(true), new Image(), img.src
StartProcessImage(url, m) ==
    /\ Len(runs) < MaxRuns
    /\ isProcessing' = TRUE
    /\ runs' = Append(runs, ResultOf(url, m))

\* handleFileSelect: the reader is started, and its onload closes over the
\* mood of the render that made the handler
SelectFile ==
    /\ DropzoneOpen
    /\ Len(readers) < MaxReaders
    /\ \E f \in Files : readers' = Append(readers, [file |-> f, mood |-> uiMood])
    /\ UNCHANGED <<originalImage, imageSize, triangles, uiMood, isProcessing, svgOutput, runs>>
    /\ UNCHANGED notUi

\* reader.onload: setOriginalImage(dataUrl); await processImage(dataUrl, mood)
ReaderLoads ==
    /\ \E k \in 1..Len(readers) :
        /\ originalImage' = DataUrl(readers[k].file)
        /\ StartProcessImage(DataUrl(readers[k].file), readers[k].mood)
        /\ readers' = Splice(readers, k - 1)
    /\ UNCHANGED <<imageSize, triangles, uiMood, svgOutput>>
    /\ UNCHANGED notUi

\* the reader fails: handleFileSelect sets no onerror, nothing happens
ReaderFails ==
    /\ \E k \in 1..Len(readers) : readers' = Splice(readers, k - 1)
    /\ UNCHANGED <<originalImage, imageSize, triangles, uiMood, isProcessing, svgOutput, runs>>
    /\ UNCHANGED notUi

\* handleMoodChange: setMood(newMood); if (originalImage) await processImage(...)
handleMoodChange ==
    /\ ControlsEnabled
    /\ \E m \in UiMoods \ {uiMood} :
        /\ uiMood' = m
        /\ StartProcessImage(originalImage, m)
    /\ UNCHANGED <<originalImage, imageSize, triangles, svgOutput, readers>>
    /\ UNCHANGED notUi

\* handleReprocess: if (originalImage) await processImage(originalImage, mood)
handleReprocess ==
    /\ ControlsEnabled
    /\ StartProcessImage(originalImage, uiMood)
    /\ UNCHANGED <<originalImage, imageSize, triangles, uiMood, svgOutput, readers>>
    /\ UNCHANGED notUi

\* handleClear
handleClear ==
    /\ ControlsEnabled
    /\ originalImage' = NoImage
    /\ triangles' = NoResult
    /\ svgOutput' = NoResult
    /\ imageSize' = NoImage
    /\ uiMood' = InitialMood
    /\ UNCHANGED <<isProcessing, readers, runs>>
    /\ UNCHANGED notUi

\* img.onload, then the rest of processImage to its last line
RunCompletes ==
    /\ \E k \in 1..Len(runs) :
        /\ Decodes(runs[k].src)
        /\ imageSize' = runs[k].src
        /\ triangles' = runs[k]
        /\ svgOutput' = runs[k]
        /\ runs' = Splice(runs, k - 1)
    /\ isProcessing' = FALSE
    /\ UNCHANGED <<originalImage, uiMood, readers>>
    /\ UNCHANGED notUi

\* img.onload, then if (!ctx) { setIsProcessing(false); return }
RunNoContext ==
    /\ \E k \in 1..Len(runs) :
        /\ Decodes(runs[k].src)
        /\ imageSize' = runs[k].src
        /\ runs' = Splice(runs, k - 1)
    /\ isProcessing' = FALSE
    /\ UNCHANGED <<originalImage, triangles, uiMood, svgOutput, readers>>
    /\ UNCHANGED notUi

\* img.onload, then a call of the pipeline throws (a canvas call such as
\* getImageData may): before setTriangles, or between it and setSvgOutput
RunThrows ==
    /\ \E k \in 1..Len(runs) :
        /\ Decodes(runs[k].src)
        /\ imageSize' = runs[k].src
        /\ \E late \in BOOLEAN : triangles' = IF late THEN runs[k] ELSE triangles
        /\ runs' = Splice(runs, k - 1)
    /\ UNCHANGED <<originalImage, uiMood, isProcessing, svgOutput, readers>>
    /\ UNCHANGED notUi

\* img.onerror = reject: the await throws and processImage ends there
RunLoadError ==
    /\ \E k \in 1..Len(runs) :
        /\ ~Decodes(runs[k].src)
        /\ runs' = Splice(runs, k - 1)
    /\ UNCHANGED <<originalImage, imageSize, triangles, uiMood, isProcessing, svgOutput, readers>>
    /\ UNCHANGED notUi

\* a waiting processImage call goes on: the browser fires onload or onerror
RunSettles == RunCompletes \/ RunNoContext \/ RunThrows \/ RunLoadError

NextUi ==
    \/ SelectFile
    \/ ReaderLoads
    \/ ReaderFails
    \/ handleMoodChange
    \/ handleReprocess
    \/ handleClear
    \/ RunCompletes
    \/ RunNoContext
    \/ RunThrows
    \/ RunLoadError

SpecUi == InitUi /\ [][NextUi]_vars

\* every Image fires onload or onerror, and every FileReader fires
SpecUiFair ==
    /\ SpecUi
    /\ WF_vars(RunSettles)
    /\ WF_vars(ReaderLoads \/ ReaderFails)

-----------------------------------------------------------------------------
(* Claims on MeshVectorizer *)

\* C22: every call of processImage eventually sets isProcessing back to
\* false, on every path (successful run, image load error, missing 2D
\* context, exception in the pipeline): whenever isProcessing is true it
\* is false again later, so the controls are never disabled forever.
C22_ProcessingEnds == isProcessing ~> ~isProcessing

\* C23: whenever isProcessing is false the displayed result is consistent
\* with the current inputs: if originalImage is null then triangles is empty
\* and svgOutput is null, otherwise triangles and svgOutput were computed
\* from the current originalImage and the current mood, under every
\* interleaving of file selections, mood changes, Regenerate, Clear and
\* completions of processImage, two runs in flight included.
C23_ResultMatchesInputs ==
    ~isProcessing =>
        IF originalImage = NoImage
        THEN triangles = NoResult /\ svgOutput = NoResult
        ELSE /\ triangles = ResultOf(originalImage, uiMood)
             /\ svgOutput = ResultOf(originalImage, uiMood)
====
